---- MODULE Spec2Model ----
(***************************************************************************)
(* Model of the in-memory store of the online-store API                    *)
(* (app/database/memory_db.py) and of the request handlers and the         *)
(* recommendation service that call it.                                    *)
(*                                                                         *)
(* Money is kept in hundredths (price 100.00 is 10000), rating averages    *)
(* in hundredths (4.67 is 467), so that round(x, 2) is a rounding to an    *)
(* integer.  The arithmetic is exact where Python's is binary floating     *)
(* point; the prices, discounts and ratings used are ones on which the two *)
(* agree.  A Python dict is a function whose domain is its key set; a key  *)
(* that is absent is absent from the domain.                               *)
(*                                                                         *)
(* Every store method runs under self._lock and is one step, except        *)
(* update_product, whose two assignments to the stored dict are two steps  *)
(* (callers read the dicts the store handed out without the lock), and     *)
(* create_review, whose insert and recomputation are two critical          *)
(* sections.  A handler is one step per store call it makes.               *)
(***************************************************************************)
EXTENDS Integers, Sequences, FiniteSets, TLC

\* ------------------------------------------------------------------ bounds
NumThreads    == 2
MaxProducts   == 2
MaxReviews    == 3
MaxUsers      == 1
MaxSellers    == 1
MaxCategories == 1
MaxClock      == 1
MaxHelpful    == 2
MaxLimit      == 2

Threads    == 1..NumThreads
ProductIds == 1..MaxProducts
ReviewIds  == 1..MaxReviews
UserIds    == 1..MaxUsers

\* round(x, 2): two decimals, i.e. hundredths
Scale == 100

VARIABLES
    products,          \* self._products : id -> product dict
    reviews,           \* self._reviews  : id -> review dict
    users,             \* self._users
    sellers,           \* self._sellers
    categories,        \* self._categories
    api_keys,          \* self._api_keys : api key -> seller id
    product_counter,
    review_counter,
    user_counter,
    seller_counter,
    category_counter,
    lock,              \* self._lock : 0 when free, else the thread holding it
    pc,                \* position of each thread
    loc,               \* local variables of each thread's call in progress
    now,               \* datetime.now()
    lastOp             \* the call that returned (or the step taken) last

counters == <<product_counter, review_counter, user_counter, seller_counter,
              category_counter>>
maps     == <<products, reviews, users, sellers, categories, api_keys>>
store    == <<maps, counters>>
vars     == <<products, reviews, users, sellers, categories, api_keys,
              product_counter, review_counter, user_counter, seller_counter,
              category_counter, lock, pc, loc, now, lastOp>>

\* ------------------------------------------------------------- dict helpers
EmptyDict == [k \in {} |-> 0]

\* d.get(k, default)
Get(d, k, default) == IF k \in DOMAIN d THEN d[k] ELSE default

\* {**d, **e} and d.update(e): the keys of e win
Merged(d, e) == e @@ d

\* del m[k] / a dict comprehension keeping the keys in keep
Restrict(m, keep) == [k \in keep |-> m[k]]

\* ids of a map in iteration order (insertion order = ascending id, as ids
\* are assigned increasing and never re-inserted)
RECURSIVE IdsInOrder(_)
IdsInOrder(S) ==
    IF S = {} THEN <<>>
    ELSE LET m == CHOOSE x \in S : \A y \in S : x <= y
         IN <<m>> \o IdsInOrder(S \ {m})

RECURSIVE SumOver(_, _)
SumOver(f, S) ==
    IF S = {} THEN 0
    ELSE LET x == CHOOSE y \in S : TRUE IN f[x] + SumOver(f, S \ {x})

\* round(n / d) to the nearest integer, ties to even (Python's round)
RoundDiv(n, d) ==
    LET q == n \div d
        r == n % d
    IN IF 2 * r < d THEN q
       ELSE IF 2 * r > d THEN q + 1
       ELSE IF q % 2 = 0 THEN q ELSE q + 1

\* round(price * (1 - discount / 100), 2)
FinalPrice(price, discount) == RoundDiv(price * (100 - discount), 100)

\* ids of the reviews whose product_id is p
ReviewsOf(rv, p) == {r \in DOMAIN rv : Get(rv[r], "product_id", 0) = p}

\* an average cut to two decimals instead of rounded
AverageRatingTruncated(rv, rs) ==
    (Scale * SumOver([r \in rs |-> Get(rv[r], "rating", 0)], rs)) \div Cardinality(rs)

\* round(sum(ratings) / len(ratings), 2) in hundredths
AverageRating(rv, rs) ==
    RoundDiv(Scale * SumOver([r \in rs |-> Get(rv[r], "rating", 0)], rs),
             Cardinality(rs))

\* ------------------------------------------------------------------ inputs
\* product_data as the create handler builds it: ProductCreate.model_dump()
\* plus seller_id
PlainProduct ==
    [category_id |-> 1, seller_id |-> 1, price |-> 10000, discount_percentage |-> 25]

\* the same with a final_price supplied by the caller
ProductInputs ==
    { PlainProduct,
      [category_id |-> 1, seller_id |-> 2, price |-> 999, discount_percentage |-> 50,
       final_price |-> 1] }

\* product_data of an update: ProductUpdate.model_dump(exclude_unset=True),
\* only the fields the caller set; the last one carries a final_price
UpdateInputs ==
    { [discount_percentage |-> 50],
      [price |-> 13000],
      [price |-> 999, final_price |-> 1] }

Ratings == {4, 5}

\* review_data: ReviewCreate.model_dump() plus product_id
ReviewInputs ==
    { [product_id |-> p, user_id |-> u, rating |-> r] :
        p \in ProductIds, u \in UserIds, r \in Ratings }

UserInput     == [name |-> "Ada"]
SellerInput   == [name |-> "TechStore"]
CategoryInput == [name |-> "Electronics"]
ApiKey        == "seller_key_001"

\* the locals of a call in progress; old is the record as it was when the
\* call fetched it
NoLoc == [pid |-> 0, rid |-> 0, via |-> "direct",
          data |-> EmptyDict, old |-> EmptyDict, refs |-> <<>>]

\* the last operation that answered: its name, argument and return value
Op(op, arg, ret) == [op |-> op, arg |-> arg, ret |-> ret]


\* --------------------------------------------------------------------- Init
\* InMemoryDatabase.__init__
Init ==
    /\ products = EmptyDict
    /\ reviews = EmptyDict
    /\ users = EmptyDict
    /\ sellers = EmptyDict
    /\ categories = EmptyDict
    /\ api_keys = EmptyDict
    /\ product_counter = 0
    /\ review_counter = 0
    /\ user_counter = 0
    /\ seller_counter = 0
    /\ category_counter = 0
    /\ lock = 0
    /\ pc = [t \in Threads |-> "idle"]
    /\ loc = [t \in Threads |-> NoLoc]
    /\ now = 0
    /\ lastOp = Op("init", 0, 0)

\* with self._lock, entered by a thread that is not inside a call
CanEnter(t) == pc[t] = "idle" /\ lock = 0

\* a thread moves on: to position p with locals l
Goto(t, p, l) ==
    /\ pc' = [pc EXCEPT ![t] = p]
    /\ loc' = [loc EXCEPT ![t] = l]

Return(t) == Goto(t, "idle", NoLoc)

\* the clock advances
Tick ==
    /\ now < MaxClock
    /\ now' = now + 1
    /\ lastOp' = Op("tick", 0, 0)
    /\ UNCHANGED <<maps, counters, lock, pc, loc>>

\* ----------------------------------------------------------------- products
get_product(t, product_id) ==
    /\ CanEnter(t)
    /\ lastOp' = Op("get_product", product_id,
                    IF product_id \in DOMAIN products THEN product_id ELSE 0)
    /\ UNCHANGED <<maps, counters, lock, pc, loc, now>>

\* the products of a category, in iteration order
ProductsByCategory(prods, category_id) ==
    SelectSeq(IdsInOrder(DOMAIN prods),
              LAMBDA p : Get(prods[p], "category_id", 0) = category_id)

\* a recalculation that keeps a final_price the dict already holds
WithFinalPriceKept(product) ==
    IF "final_price" \in DOMAIN product THEN product
    ELSE Merged(product,
                [final_price |-> FinalPrice(Get(product, "price", 0),
                                            Get(product, "discount_percentage", 0))])

\* the product after lines 94-96 and 112-114
WithFinalPrice(product) ==
    Merged(product,
           [final_price |-> FinalPrice(Get(product, "price", 0),
                                       Get(product, "discount_percentage", 0))])

\* the product dict create_product builds from product_data
NewProduct(product_id, product_data, ts) ==
    WithFinalPrice(Merged(Merged([id |-> product_id], product_data),
                          [created_at |-> ts, updated_at |-> ts,
                           average_rating |-> 0, review_count |-> 0]))

\* a create that numbers the product by the size of the map
create_product_by_size(t, product_data) ==
    /\ CanEnter(t)
    /\ product_counter < MaxProducts
    /\ product_counter' = product_counter + 1
    /\ products' = Merged(products,
           (Cardinality(DOMAIN products) + 1) :>
               NewProduct(Cardinality(DOMAIN products) + 1, product_data, now))
    /\ lastOp' = Op("create_product", 0, Cardinality(DOMAIN products) + 1)
    /\ UNCHANGED <<reviews, users, sellers, categories, api_keys, review_counter,
                   user_counter, seller_counter, category_counter, lock, pc, loc, now>>

create_product(t, product_data) ==
    /\ CanEnter(t)
    /\ product_counter < MaxProducts
    /\ product_counter' = product_counter + 1
    /\ products' = Merged(products,
           (product_counter + 1) :> NewProduct(product_counter + 1, product_data, now))
    /\ lastOp' = Op("create_product", 0, product_counter + 1)
    /\ UNCHANGED <<reviews, users, sellers, categories, api_keys, review_counter,
                   user_counter, seller_counter, category_counter, lock, pc, loc, now>>

\* an update that stamps created_at as create_product does
WithUpdateRestamped(product, product_data, ts) ==
    Merged(Merged(product, product_data), [created_at |-> ts, updated_at |-> ts])

\* the product after lines 108-109
WithUpdate(product, product_data, ts) ==
    Merged(Merged(product, product_data), [updated_at |-> ts])

\* update_product, lines 103-109: take the lock, not found -> None, else
\* product.update(product_data) and the new updated_at, on the stored dict
update_product(t, product_id, product_data) ==
    /\ CanEnter(t)
    /\ IF product_id \notin DOMAIN products
       THEN /\ lastOp' = Op("update_product", product_id, 0)
            /\ UNCHANGED <<maps, counters, lock, pc, loc, now>>
       ELSE /\ products' = [products EXCEPT ![product_id] =
                               WithUpdate(@, product_data, now)]
            /\ lock' = t
            /\ Goto(t, "update_product_final",
                    [NoLoc EXCEPT !.pid = product_id, !.data = product_data,
                                  !.old = products[product_id]])
            /\ lastOp' = Op("step", 0, 0)
            /\ UNCHANGED <<reviews, users, sellers, categories, api_keys, counters, now>>

\* update_product, lines 112-116: recalculate final_price, return the
\* product, release the lock
update_product_final(t) ==
    /\ pc[t] = "update_product_final"
    /\ lock = t
    /\ products' = [products EXCEPT ![loc[t].pid] = WithFinalPrice(@)]
    /\ lock' = 0
    /\ Return(t)
    /\ lastOp' = Op("update_product", loc[t].pid, loc[t].pid)
    /\ UNCHANGED <<reviews, users, sellers, categories, api_keys, counters, now>>

\* positions at which a handler holds the product dict it fetched
HoldsProduct(t) ==
    /\ pc[t] \in {"router_reviews_list", "router_reviews_names", "router_get_product_build"}
    /\ loc[t].via = "get_product"

\* del self._products[product_id] takes the dict out of the map; a handler
\* that fetched it still holds it, with the content it had at that moment
Orphaned(product_id) ==
    [t \in Threads |->
        IF HoldsProduct(t) /\ loc[t].pid = product_id
        THEN [loc[t] EXCEPT !.data = products[product_id]]
        ELSE loc[t]]

\* a cascade with the comparison inverted
ReviewsKeptOnlyOf(rv, product_id) ==
    Restrict(rv, ReviewsOf(rv, product_id))

\* the review map after the cascade of delete_product, lines 124-127
ReviewsKept(rv, product_id) ==
    Restrict(rv, DOMAIN rv \ ReviewsOf(rv, product_id))

\* a delete whose cascade is not under the existence test
delete_product_cascading_always(t, product_id) ==
    /\ CanEnter(t)
    /\ reviews' = ReviewsKept(reviews, product_id)
    /\ IF product_id \in DOMAIN products
       THEN /\ products' = Restrict(products, DOMAIN products \ {product_id})
            /\ loc' = Orphaned(product_id)
            /\ lastOp' = Op("delete_product", product_id, TRUE)
       ELSE /\ lastOp' = Op("delete_product", product_id, FALSE)
            /\ UNCHANGED <<products, loc>>
    /\ UNCHANGED <<users, sellers, categories, api_keys, counters, lock, pc, now>>

\* a delete whose cascade removes the reviews of every product
delete_product_all_reviews(t, product_id) ==
    /\ CanEnter(t)
    /\ IF product_id \in DOMAIN products
       THEN /\ products' = Restrict(products, DOMAIN products \ {product_id})
            /\ reviews' = EmptyDict
            /\ loc' = Orphaned(product_id)
            /\ lastOp' = Op("delete_product", product_id, TRUE)
       ELSE /\ lastOp' = Op("delete_product", product_id, FALSE)
            /\ UNCHANGED <<products, reviews, loc>>
    /\ UNCHANGED <<users, sellers, categories, api_keys, counters, lock, pc, now>>

delete_product(t, product_id) ==
    /\ CanEnter(t)
    /\ IF product_id \in DOMAIN products
       THEN /\ products' = Restrict(products, DOMAIN products \ {product_id})
            /\ reviews' = ReviewsKept(reviews, product_id)
            /\ loc' = Orphaned(product_id)
            /\ lastOp' = Op("delete_product", product_id, TRUE)
       ELSE /\ lastOp' = Op("delete_product", product_id, FALSE)
            /\ UNCHANGED <<products, reviews, loc>>
    /\ UNCHANGED <<users, sellers, categories, api_keys, counters, lock, pc, now>>

\* a recomputation over all the reviews of the store
RatingUpdatedAllReviews(prods, rv, product_id) ==
    IF product_id \notin DOMAIN prods \/ rv = EmptyDict THEN prods
    ELSE [prods EXCEPT ![product_id] =
            Merged(@, [average_rating |-> AverageRating(rv, DOMAIN rv),
                       review_count |-> Cardinality(DOMAIN rv)])]

\* the product map after update_product_rating(product_id)
RatingUpdated(prods, rv, product_id) ==
    IF product_id \notin DOMAIN prods THEN prods
    ELSE LET product_reviews == ReviewsOf(rv, product_id)
         IN IF product_reviews # {}
            THEN [prods EXCEPT ![product_id] =
                    Merged(@, [average_rating |-> AverageRating(rv, product_reviews),
                               review_count |-> Cardinality(product_reviews)])]
            ELSE [prods EXCEPT ![product_id] =
                    Merged(@, [average_rating |-> 0, review_count |-> 0])]

update_product_rating(t, product_id) ==
    /\ CanEnter(t)
    /\ products' = RatingUpdated(products, reviews, product_id)
    /\ lastOp' = Op("update_product_rating", product_id, 0)
    /\ UNCHANGED <<reviews, users, sellers, categories, api_keys, counters, lock, pc,
                   loc, now>>

\* ------------------------------------------------------------------ reviews
NewReview(review_id, review_data, ts) ==
    Merged(Merged([id |-> review_id], review_data),
           [created_at |-> ts, helpful_count |-> 0])

\* an insert that returns with the lock still held
InsertReviewHoldingLock(t, review_data, via) ==
    /\ lock = 0
    /\ review_counter < MaxReviews
    /\ review_counter' = review_counter + 1
    /\ reviews' = Merged(reviews,
           (review_counter + 1) :> NewReview(review_counter + 1, review_data, now))
    /\ Goto(t, "create_review_rating",
            [loc[t] EXCEPT !.rid = review_counter + 1, !.data = review_data,
                           !.via = via])
    /\ lock' = t
    /\ lastOp' = Op("step", 0, 0)
    /\ UNCHANGED <<products, users, sellers, categories, api_keys, product_counter,
                   user_counter, seller_counter, category_counter, now>>

\* create_review, lines 174-183: the insert, under the lock; via is the
\* caller the review is returned to
InsertReview(t, review_data, via) ==
    /\ lock = 0
    /\ review_counter < MaxReviews
    /\ review_counter' = review_counter + 1
    /\ reviews' = Merged(reviews,
           (review_counter + 1) :> NewReview(review_counter + 1, review_data, now))
    /\ Goto(t, "create_review_rating",
            [loc[t] EXCEPT !.rid = review_counter + 1, !.data = review_data,
                           !.via = via])
    /\ lastOp' = Op("step", 0, 0)
    /\ UNCHANGED <<products, users, sellers, categories, api_keys, product_counter,
                   user_counter, seller_counter, category_counter, lock, now>>

\* callers pass the id of a product they have read from the store
\* (reviews.py line 225, seed_data.py): one that exists or has existed
create_review(t, review_data) ==
    /\ pc[t] = "idle"
    /\ review_data.product_id \in 1..product_counter
    /\ InsertReview(t, review_data, "direct")

\* create_review, lines 185-187: update_product_rating, a second critical
\* section, then the review is returned
create_review_rating(t) ==
    /\ pc[t] = "create_review_rating"
    /\ lock = 0
    /\ products' = RatingUpdated(products, reviews, Get(loc[t].data, "product_id", 0))
    /\ IF loc[t].via = "direct"
       THEN Return(t)
       ELSE Goto(t, "router_create_review_name", loc[t])
    /\ lastOp' = Op("create_review", Get(loc[t].data, "product_id", 0), loc[t].rid)
    /\ UNCHANGED <<reviews, users, sellers, categories, api_keys, counters, lock, now>>

\* a handler's 404 response, its 200/201 response with a body, and the 500
\* an exception it does not catch is answered with
Status404 == [status |-> 404]
Status200(body) == [status |-> 200, body |-> body]
Status500 == [status |-> 500]

\* an increment that enters without waiting for the lock
IncrementHelpfulUnlocked(t, review_id, via) ==
    /\ pc[t] = "idle"
    /\ IF review_id \in DOMAIN reviews
       THEN /\ reviews[review_id].helpful_count < MaxHelpful
            /\ lock' = t
            /\ Goto(t, "increment_helpful_add",
                    [NoLoc EXCEPT !.rid = review_id, !.old = reviews[review_id],
                                  !.via = via])
            /\ lastOp' = Op("step", 0, 0)
       ELSE /\ lastOp' = IF via = "direct"
                         THEN Op("increment_helpful", review_id, FALSE)
                         ELSE Op("mark_review_helpful", review_id, Status404)
            /\ UNCHANGED <<lock, pc, loc>>
    /\ UNCHANGED <<maps, counters, now>>

\* increment_helpful, lines 191-193 and 195: the lock is taken and the id
\* looked up; absent, False is returned (404 by the handler, reviews.py
\* lines 400-404); present, helpful_count is read for "+= 1"
IncrementHelpful(t, review_id, via) ==
    /\ CanEnter(t)
    /\ IF review_id \in DOMAIN reviews
       THEN /\ reviews[review_id].helpful_count < MaxHelpful
            /\ lock' = t
            /\ Goto(t, "increment_helpful_add",
                    [NoLoc EXCEPT !.rid = review_id, !.old = reviews[review_id],
                                  !.via = via])
            /\ lastOp' = Op("step", 0, 0)
       ELSE /\ lastOp' = IF via = "direct"
                         THEN Op("increment_helpful", review_id, FALSE)
                         ELSE Op("mark_review_helpful", review_id, Status404)
            /\ UNCHANGED <<lock, pc, loc>>
    /\ UNCHANGED <<maps, counters, now>>

increment_helpful(t, review_id) == IncrementHelpful(t, review_id, "direct")

\* POST /reviews/{review_id}/helpful, line 399
mark_review_helpful(t, review_id) ==
    IncrementHelpful(t, review_id, "mark_review_helpful")

\* increment_helpful, lines 193-194: the count read, plus one, is stored,
\* the lock released and True returned
increment_helpful_add(t) ==
    /\ pc[t] = "increment_helpful_add"
    /\ reviews' = [reviews EXCEPT ![loc[t].rid] =
                      Merged(@, [helpful_count |-> loc[t].old.helpful_count + 1])]
    /\ lock' = 0
    /\ IF loc[t].via = "direct"
       THEN /\ Return(t)
            /\ lastOp' = Op("increment_helpful", loc[t].rid, TRUE)
       ELSE /\ Goto(t, "mark_review_helpful_get", loc[t])
            /\ lastOp' = Op("step", 0, 0)
    /\ UNCHANGED <<products, users, sellers, categories, api_keys, counters, now>>

\* mark_review_helpful, lines 406-411: the review is fetched again and its
\* helpful_count returned; review.get on None raises AttributeError, which
\* the framework answers with 500
mark_review_helpful_get(t) ==
    /\ pc[t] = "mark_review_helpful_get"
    /\ lock = 0
    /\ lastOp' = Op("mark_review_helpful", loc[t].rid,
                    IF loc[t].rid \in DOMAIN reviews
                    THEN Status200([helpful_count |->
                                       Get(reviews[loc[t].rid], "helpful_count", 0)])
                    ELSE Status500)
    /\ Return(t)
    /\ UNCHANGED <<maps, counters, lock, now>>

\* clear_all, lines 294-305 ("for testing"; called by reset_and_seed)
clear_all(t) ==
    /\ CanEnter(t)
    /\ products' = EmptyDict
    /\ reviews' = EmptyDict
    /\ users' = EmptyDict
    /\ sellers' = EmptyDict
    /\ categories' = EmptyDict
    /\ api_keys' = EmptyDict
    /\ product_counter' = 0
    /\ review_counter' = 0
    /\ user_counter' = 0
    /\ seller_counter' = 0
    /\ category_counter' = 0
    /\ lastOp' = Op("clear_all", 0, 0)
    /\ UNCHANGED <<lock, pc, loc, now>>

\* ------------------------------------------- users, sellers and categories
create_user(t, user_data) ==
    /\ CanEnter(t)
    /\ user_counter < MaxUsers
    /\ user_counter' = user_counter + 1
    /\ users' = Merged(users,
           (user_counter + 1) :> Merged(Merged([id |-> user_counter + 1], user_data),
                                        [created_at |-> now]))
    /\ lastOp' = Op("create_user", 0, user_counter + 1)
    /\ UNCHANGED <<products, reviews, sellers, categories, api_keys, product_counter,
                   review_counter, seller_counter, category_counter, lock, pc, loc, now>>

create_seller(t, seller_data, api_key) ==
    /\ CanEnter(t)
    /\ seller_counter < MaxSellers
    /\ seller_counter' = seller_counter + 1
    /\ sellers' = Merged(sellers,
           (seller_counter + 1) :> Merged(Merged([id |-> seller_counter + 1], seller_data),
                                          [created_at |-> now]))
    /\ api_keys' = Merged(api_keys, api_key :> (seller_counter + 1))
    /\ lastOp' = Op("create_seller", 0, seller_counter + 1)
    /\ UNCHANGED <<products, reviews, users, categories, product_counter,
                   review_counter, user_counter, category_counter, lock, pc, loc, now>>

create_category(t, category_data) ==
    /\ CanEnter(t)
    /\ category_counter < MaxCategories
    /\ category_counter' = category_counter + 1
    /\ categories' = Merged(categories,
           (category_counter + 1) :> Merged([id |-> category_counter + 1], category_data))
    /\ lastOp' = Op("create_category", 0, category_counter + 1)
    /\ UNCHANGED <<products, reviews, users, sellers, api_keys, product_counter,
                   review_counter, user_counter, seller_counter, lock, pc, loc, now>>

\* ---------------------------------------------------------------- handlers
\* user.get("name", "Anonymous") if user else "Anonymous"
UserName(user_id) ==
    IF user_id \in DOMAIN users THEN Get(users[user_id], "name", "Anonymous")
    ELSE "Anonymous"

\* POST /products/{product_id}/reviews, lines 225-231: the product check
router_create_review(t, product_id, review) ==
    /\ CanEnter(t)
    /\ IF product_id \notin DOMAIN products
       THEN /\ lastOp' = Op("router_create_review", product_id, Status404)
            /\ UNCHANGED <<pc, loc>>
       ELSE /\ Goto(t, "router_create_review_user",
                    [NoLoc EXCEPT !.pid = product_id, !.data = review])
            /\ lastOp' = Op("step", 0, 0)
    /\ UNCHANGED <<maps, counters, lock, now>>

\* lines 233-239: the user check
router_create_review_user(t) ==
    /\ pc[t] = "router_create_review_user"
    /\ lock = 0
    /\ IF loc[t].data.user_id \notin DOMAIN users
       THEN /\ lastOp' = Op("router_create_review", loc[t].pid, Status404)
            /\ Return(t)
       ELSE /\ Goto(t, "router_create_review_insert",
                    [loc[t] EXCEPT !.old = users[loc[t].data.user_id]])
            /\ lastOp' = Op("step", 0, 0)
    /\ UNCHANGED <<maps, counters, lock, now>>

\* lines 241-245: review_data gets the product_id and goes to db.create_review
router_create_review_insert(t) ==
    /\ pc[t] = "router_create_review_insert"
    /\ InsertReview(t, Merged(loc[t].data, [product_id |-> loc[t].pid]), "handler")

\* lines 248-250: user_name is set on the dict db.create_review returned,
\* which is the dict the store holds under reviews[rid] while it is stored
router_create_review_name(t) ==
    /\ pc[t] = "router_create_review_name"
    /\ reviews' = IF loc[t].rid \in DOMAIN reviews
                  THEN [reviews EXCEPT ![loc[t].rid] =
                          Merged(@, [user_name |-> Get(loc[t].old, "name", "Anonymous")])]
                  ELSE reviews
    /\ lastOp' = Op("router_create_review", loc[t].pid, Status200(loc[t].rid))
    /\ Return(t)
    /\ UNCHANGED <<products, users, sellers, categories, api_keys, counters, lock, now>>

\* GET /products/{product_id}/reviews, lines 135-141: the product check
router_get_product_reviews(t, product_id) ==
    /\ CanEnter(t)
    /\ IF product_id \notin DOMAIN products
       THEN /\ lastOp' = Op("router_get_product_reviews", product_id, Status404)
            /\ UNCHANGED <<pc, loc>>
       ELSE /\ Goto(t, "router_reviews_list",
                    [NoLoc EXCEPT !.pid = product_id, !.via = "get_product_reviews"])
            /\ lastOp' = Op("step", 0, 0)
    /\ UNCHANGED <<maps, counters, lock, now>>

\* GET /products/{product_id}, lines 432-438: the product is fetched; old is
\* its content at that moment, data the dict held (read through the store
\* while it is stored)
router_get_product(t, product_id) ==
    /\ CanEnter(t)
    /\ IF product_id \notin DOMAIN products
       THEN /\ lastOp' = Op("router_get_product", product_id, Status404)
            /\ UNCHANGED <<pc, loc>>
       ELSE /\ Goto(t, "router_reviews_list",
                    [NoLoc EXCEPT !.pid = product_id, !.via = "get_product",
                                  !.old = products[product_id]])
            /\ lastOp' = Op("step", 0, 0)
    /\ UNCHANGED <<maps, counters, lock, now>>

\* reviews.py line 143, products.py line 445:
\* reviews = db.get_reviews_by_product(product_id), the stored dicts
router_reviews_list(t) ==
    /\ pc[t] = "router_reviews_list"
    /\ lock = 0
    /\ Goto(t, "router_reviews_names",
            [loc[t] EXCEPT !.refs = IdsInOrder(ReviewsOf(reviews, loc[t].pid))])
    /\ lastOp' = Op("step", 0, 0)
    /\ UNCHANGED <<maps, counters, lock, now>>

\* the set of elements of a list
Range(seq) == {seq[i] : i \in 1..Len(seq)}

\* reviews.py lines 146-148, products.py lines 446-448: user_name is set on
\* every dict of the list (the loop, with its db.get_user calls, as one
\* step); get_product_reviews then filters, sorts and pages the list and
\* returns, get_product goes on to build its response
router_reviews_names(t) ==
    /\ pc[t] = "router_reviews_names"
    /\ lock = 0
    /\ reviews' = [r \in DOMAIN reviews |->
                      IF r \in Range(loc[t].refs)
                      THEN Merged(reviews[r],
                                  [user_name |-> UserName(Get(reviews[r], "user_id", 0))])
                      ELSE reviews[r]]
    /\ IF loc[t].via = "get_product"
       THEN /\ Goto(t, "router_get_product_build", loc[t])
            /\ lastOp' = Op("router_get_product_names", loc[t].pid, Status200(loc[t].refs))
       ELSE /\ Return(t)
            /\ lastOp' = Op("router_get_product_reviews", loc[t].pid,
                            Status200(loc[t].refs))
    /\ UNCHANGED <<products, users, sellers, categories, api_keys, counters, lock, now>>

\* the product dict a handler holds: the stored one, or the one taken out
TheProduct(t) ==
    IF loc[t].pid \in DOMAIN products THEN products[loc[t].pid] ELSE loc[t].data

\* products.py lines 481-488: the response copies the fields of the product
\* dict as they are now; fetched is what they were when it was fetched
router_get_product_build(t) ==
    /\ pc[t] = "router_get_product_build"
    /\ lastOp' = Op("router_get_product", loc[t].pid,
                    [status |-> 200, body |-> TheProduct(t), fetched |-> loc[t].old])
    /\ Return(t)
    /\ UNCHANGED <<maps, counters, lock, now>>

\* ---------------------------------------------------------- recommendation
Max(a, b) == IF a >= b THEN a ELSE b
Min(a, b) == IF a <= b THEN a ELSE b
Abs(a) == IF a >= 0 THEN a ELSE -a

\* x placed in a list sorted by descending score, behind the elements that
\* do not score less (list.sort is stable, also with reverse=True)
InsertDesc(sorted, x, score) ==
    LET k == Cardinality({i \in 1..Len(sorted) : score[sorted[i]] >= score[x]})
    IN SubSeq(sorted, 1, k) \o <<x>> \o SubSeq(sorted, k + 1, Len(sorted))

RECURSIVE SortedDesc(_, _)
SortedDesc(seq, score) ==
    IF seq = <<>> THEN <<>>
    ELSE InsertDesc(SortedDesc(SubSeq(seq, 1, Len(seq) - 1), score), seq[Len(seq)], score)

\* a cut that keeps the last n elements
TakeLast(seq, n) == SubSeq(seq, Max(1, Len(seq) - n + 1), Len(seq))

\* seq[:n]
Take(seq, n) == SubSeq(seq, 1, Min(n, Len(seq)))

\* a score made of the rating alone
calculate_score_rating_only(p, product_price) ==
    LET rating == Get(p, "average_rating", 0)
    IN IF product_price > 0 THEN rating * product_price ELSE rating

\* calculate_score(p) for the reference price product_price, times
\* 100 * product_price when that is positive (the same factor for every
\* candidate): rating + max(0, 1 - |p_price - product_price| / product_price) * 2
calculate_score(p, product_price) ==
    LET p_price == Get(p, "final_price", Get(p, "price", 0))
        rating == Get(p, "average_rating", 0)
    IN IF product_price > 0
       THEN rating * product_price
              + 2 * Scale * Max(0, product_price - Abs(p_price - product_price))
       ELSE rating

\* similar products that do not leave out the reference product
SimilarProductsWithSelf(prods, product, product_id, limit, include_same_seller) ==
    LET category_id == Get(product, "category_id", 0)
        product_price == Get(product, "final_price", Get(product, "price", 0))
        seller_id == Get(product, "seller_id", 0)
        in_category == ProductsByCategory(prods, category_id)
        candidates == IF include_same_seller THEN in_category
                      ELSE SelectSeq(in_category,
                               LAMBDA p : Get(prods[p], "seller_id", 0) # seller_id)
        score == [p \in DOMAIN prods |-> calculate_score(prods[p], product_price)]
    IN Take(SortedDesc(candidates, score), limit)

\* get_similar_products, lines 75-108, for the reference product read
SimilarProducts(prods, product, product_id, limit, include_same_seller) ==
    LET category_id == Get(product, "category_id", 0)
        product_price == Get(product, "final_price", Get(product, "price", 0))
        seller_id == Get(product, "seller_id", 0)
        in_category == ProductsByCategory(prods, category_id)
        others == SelectSeq(in_category, LAMBDA p : Get(prods[p], "id", 0) # product_id)
        candidates == IF include_same_seller THEN others
                      ELSE SelectSeq(others,
                               LAMBDA p : Get(prods[p], "seller_id", 0) # seller_id)
        score == [p \in DOMAIN prods |-> calculate_score(prods[p], product_price)]
    IN Take(SortedDesc(candidates, score), limit)

\* get_similar_products, lines 71-77: the reference product is fetched,
\* absent -> [], else its category, price and seller are read
get_similar_products(t, product_id, limit, include_same_seller) ==
    /\ CanEnter(t)
    /\ IF product_id \notin DOMAIN products
       THEN /\ lastOp' = Op("get_similar_products", product_id, <<>>)
            /\ UNCHANGED <<pc, loc>>
       ELSE /\ Goto(t, "get_similar_products_candidates",
                    [NoLoc EXCEPT !.pid = product_id,
                                  !.old = products[product_id],
                                  !.data = [limit |-> limit,
                                            include_same_seller |-> include_same_seller]])
            /\ lastOp' = Op("step", 0, 0)
    /\ UNCHANGED <<maps, counters, lock, now>>

\* a ranking that writes each score into the product it has scored; the
\* lists hold the dicts of the store
get_similar_products_candidates_scoring(t) ==
    /\ pc[t] = "get_similar_products_candidates"
    /\ lock = 0
    /\ lastOp' = Op("get_similar_products", loc[t].pid,
                    SimilarProducts(products, loc[t].old, loc[t].pid,
                                    loc[t].data.limit, loc[t].data.include_same_seller))
    /\ products' = [p \in DOMAIN products |->
                      IF products[p].category_id = loc[t].old.category_id /\ p # loc[t].pid
                      THEN Merged(products[p],
                                  [score |-> calculate_score(products[p],
                                                             loc[t].old.final_price)])
                      ELSE products[p]]
    /\ Return(t)
    /\ UNCHANGED <<reviews, users, sellers, categories, api_keys, counters, lock, now>>

\* get_similar_products, lines 80-108: the category is fetched, scored and
\* cut to limit
get_similar_products_candidates(t) ==
    /\ pc[t] = "get_similar_products_candidates"
    /\ lock = 0
    /\ lastOp' = Op("get_similar_products", loc[t].pid,
                    SimilarProducts(products, loc[t].old, loc[t].pid,
                                    loc[t].data.limit, loc[t].data.include_same_seller))
    /\ Return(t)
    /\ UNCHANGED <<maps, counters, lock, now>>

\* ------------------------------------------------------------------ strings
\* A str is the sequence of its code points, so that lower(), "in" and the
\* order of two strings are computed and not assumed.

\* str.lower() on ASCII letters
Lower(s) == [i \in 1..Len(s) |-> IF s[i] \in 65..90 THEN s[i] + 32 ELSE s[i]]

\* needle in hay
Contains(needle, hay) ==
    \E i \in 0..(Len(hay) - Len(needle)) : SubSeq(hay, i + 1, i + Len(needle)) = needle

\* a < b for two str: at the first position where they differ, or a is a
\* proper prefix of b
LexLess(a, b) ==
    \E k \in 1..(Min(Len(a), Len(b)) + 1) :
        /\ \A i \in 1..(k - 1) : a[i] = b[i]
        /\ IF k > Len(a) THEN k <= Len(b)
           ELSE IF k > Len(b) THEN FALSE
           ELSE a[k] < b[k]

\* ------------------------------------------------------------ seeded store
\* seed_database() fills the store through its own create calls: categories,
\* sellers, users, products, then reviews.  A catalogue row is a product_data
\* with the ratings of the reviews seeded for it.
MaxCatalog == 3

Pen == <<80, 101, 110>>       \* "Pen"
pen == <<112, 101, 110>>      \* "pen"
Ink == <<73, 110, 107>>       \* "Ink"
cap == <<99, 97, 112>>        \* "cap"

CatalogRows ==
    { [data |-> [name |-> Pen, description |-> <<66, 108, 117, 101>>,    \* "Blue"
                 category_id |-> 1, seller_id |-> 1, price |-> 10000,
                 discount_percentage |-> 0, stock_status |-> "in_stock"],
       ratings |-> <<4>>],
      [data |-> [name |-> pen, description |-> <<82, 101, 100>>,         \* "Red"
                 category_id |-> 1, seller_id |-> 2, price |-> 13000,
                 discount_percentage |-> 0, stock_status |-> "in_stock"],
       ratings |-> <<4, 5>>],
      [data |-> [name |-> Ink,
                 description |-> <<70, 111, 114, 32, 112, 101, 110, 115>>, \* "For pens"
                 category_id |-> 1, seller_id |-> 3, price |-> 50000,
                 discount_percentage |-> 0, stock_status |-> "out_of_stock"],
       ratings |-> <<5>>],
      [data |-> [name |-> cap, description |-> <<76, 105, 100>>,         \* "Lid"
                 category_id |-> 2, seller_id |-> 1, price |-> 20000,
                 discount_percentage |-> 50, stock_status |-> "in_stock"],
       ratings |-> <<5, 5, 4>>],
      [data |-> [name |-> Pen, description |-> <<71, 101, 108>>,         \* "Gel"
                 category_id |-> 1, seller_id |-> 1, price |-> 10000,
                 discount_percentage |-> 100, stock_status |-> "low_stock"],
       ratings |-> <<>>] }

SeedCategories == <<CategoryInput, [name |-> "Fashion"]>>
SeedSellers    == <<SellerInput, [name |-> "FashionHub"], [name |-> "HomeStyle"]>>
SeedApiKeys    == <<ApiKey, "seller_key_002", "seller_key_003">>

\* datetime.now() of the i-th create_product of the seeding: the clock moves
\* on between two creates until it has reached MaxClock
SeedTime(i) == Min(i - 1, MaxClock)

SeededProducts(rows) ==
    [i \in 1..Len(rows) |-> NewProduct(i, rows[i].data, SeedTime(i))]

\* the review_data of the seeding, product after product
RECURSIVE SeedReviewData(_, _)
SeedReviewData(rows, i) ==
    IF i > Len(rows) THEN <<>>
    ELSE [j \in 1..Len(rows[i].ratings) |->
             [product_id |-> i, user_id |-> 1, rating |-> rows[i].ratings[j]]]
         \o SeedReviewData(rows, i + 1)

SeededReviews(rows) ==
    LET data == SeedReviewData(rows, 1)
    IN [r \in 1..Len(data) |-> NewReview(r, data[r], MaxClock)]

\* the product map once every create_review has run its recomputation
RECURSIVE SeededRatings(_, _, _)
SeededRatings(prods, rv, n) ==
    IF n = 0 THEN prods
    ELSE RatingUpdated(SeededRatings(prods, rv, n - 1), rv, n)

\* the store after seed_database(), for a catalogue of up to MaxCatalog rows
InitCatalog ==
    \E n \in 0..MaxCatalog : \E rows \in [1..n -> CatalogRows] :
        /\ reviews = SeededReviews(rows)
        /\ products = SeededRatings(SeededProducts(rows), SeededReviews(rows), n)
        /\ users = (1 :> Merged(Merged([id |-> 1], UserInput), [created_at |-> 0]))
        /\ sellers = [s \in 1..Len(SeedSellers) |->
                         Merged(Merged([id |-> s], SeedSellers[s]), [created_at |-> 0])]
        /\ categories = [c \in 1..Len(SeedCategories) |->
                            Merged([id |-> c], SeedCategories[c])]
        /\ api_keys = [k \in Range(SeedApiKeys) |->
                          CHOOSE s \in 1..Len(SeedApiKeys) : SeedApiKeys[s] = k]
        /\ product_counter = n
        /\ review_counter = Len(SeedReviewData(rows, 1))
        /\ user_counter = 1
        /\ seller_counter = Len(SeedSellers)
        /\ category_counter = Len(SeedCategories)
        /\ lock = 0
        /\ pc = [t \in Threads |-> "idle"]
        /\ loc = [t \in Threads |-> NoLoc]
        /\ now = MaxClock
        /\ lastOp = Op("init", 0, 0)

\* ------------------------------------------------------------ product lists
\* A list of products is the sequence of their ids: the list holds the dicts
\* of the store, whose fields are read through prods.

MaxPage     == 4
MaxPageSize == 2

\* db.get_all_products()
AllProducts(prods) == IdsInOrder(DOMAIN prods)

\* db.search_products(query)
SearchProducts(prods, query) ==
    LET query_lower == Lower(query)
    IN SelectSeq(IdsInOrder(DOMAIN prods),
                 LAMBDA p : \/ Contains(query_lower, Lower(Get(prods[p], "name", <<>>)))
                            \/ Contains(query_lower,
                                        Lower(Get(prods[p], "description", <<>>))))

\* a filter whose category test is skipped when another criterion is given
apply_filters_category_alone(prods, list, filters) ==
    LET Given(k) == k \in DOMAIN filters
        kept(p) ==
            /\ (Given("category_id") /\ DOMAIN filters = {"category_id"})
                  => Get(prods[p], "category_id", 0) = filters.category_id
            /\ Given("min_price") => Get(prods[p], "final_price", 0) >= filters.min_price
            /\ Given("max_price") => Get(prods[p], "final_price", 0) <= filters.max_price
            /\ Given("min_rating")
                  => Get(prods[p], "average_rating", 0) >= filters.min_rating
            /\ Given("stock_status")
                  => Get(prods[p], "stock_status", "") = filters.stock_status
            /\ Given("seller_id") => Get(prods[p], "seller_id", 0) = filters.seller_id
            /\ (Given("has_discount") /\ filters.has_discount)
                  => Get(prods[p], "discount_percentage", 0) > 0
    IN SelectSeq(list, kept)

\* a filter whose price bounds are exclusive
apply_filters_exclusive(prods, list, filters) ==
    LET Given(k) == k \in DOMAIN filters
        kept(p) ==
            /\ (Given("category_id") /\ filters.category_id # 0)
                  => Get(prods[p], "category_id", 0) = filters.category_id
            /\ Given("min_price") => Get(prods[p], "final_price", 0) > filters.min_price
            /\ Given("max_price") => Get(prods[p], "final_price", 0) < filters.max_price
            /\ Given("min_rating")
                  => Get(prods[p], "average_rating", 0) >= filters.min_rating
            /\ (Given("stock_status") /\ filters.stock_status # "")
                  => Get(prods[p], "stock_status", "") = filters.stock_status
            /\ (Given("seller_id") /\ filters.seller_id # 0)
                  => Get(prods[p], "seller_id", 0) = filters.seller_id
            /\ (Given("has_discount") /\ filters.has_discount)
                  => Get(prods[p], "discount_percentage", 0) > 0
    IN SelectSeq(list, kept)

\* apply_filters(products, **filters): a criterion that is None is a key
\* that is absent; category_id, stock_status, seller_id and has_discount are
\* tested for truth, the three bounds for "is not None"
apply_filters(prods, list, filters) ==
    LET Given(k) == k \in DOMAIN filters
        by_category ==
            IF Given("category_id") /\ filters.category_id # 0
            THEN SelectSeq(list, LAMBDA p :
                     Get(prods[p], "category_id", 0) = filters.category_id)
            ELSE list
        by_min_price ==
            IF Given("min_price")
            THEN SelectSeq(by_category, LAMBDA p :
                     Get(prods[p], "final_price", 0) >= filters.min_price)
            ELSE by_category
        by_max_price ==
            IF Given("max_price")
            THEN SelectSeq(by_min_price, LAMBDA p :
                     Get(prods[p], "final_price", 0) <= filters.max_price)
            ELSE by_min_price
        by_min_rating ==
            IF Given("min_rating")
            THEN SelectSeq(by_max_price, LAMBDA p :
                     Get(prods[p], "average_rating", 0) >= filters.min_rating)
            ELSE by_max_price
        by_stock_status ==
            IF Given("stock_status") /\ filters.stock_status # ""
            THEN SelectSeq(by_min_rating, LAMBDA p :
                     Get(prods[p], "stock_status", "") = filters.stock_status)
            ELSE by_min_rating
        by_seller ==
            IF Given("seller_id") /\ filters.seller_id # 0
            THEN SelectSeq(by_stock_status, LAMBDA p :
                     Get(prods[p], "seller_id", 0) = filters.seller_id)
            ELSE by_stock_status
        by_discount ==
            IF Given("has_discount") /\ filters.has_discount
            THEN SelectSeq(by_seller, LAMBDA p :
                     Get(prods[p], "discount_percentage", 0) > 0)
            ELSE by_seller
    IN by_discount

\* the key of key_map for sort_by; an unknown sort_by falls back to created_at
SortKey(p, sort_by) ==
    CASE sort_by = "price"        -> Get(p, "final_price", 0)
      [] sort_by = "rating"       -> Get(p, "average_rating", 0)
      [] sort_by = "name"         -> Lower(Get(p, "name", <<>>))
      [] sort_by = "discount"     -> Get(p, "discount_percentage", 0)
      [] sort_by = "review_count" -> Get(p, "review_count", 0)
      [] OTHER                    -> Get(p, "created_at", 0)

\* a < b for two keys of sort_by
KeyLess(a, b, sort_by) == IF sort_by = "name" THEN LexLess(a, b) ELSE a < b

\* x, which follows the elements of sorted in the input, takes its place
\* behind those it does not have to precede: sorted() is stable, and with
\* reverse=True it still keeps the input order of equal keys
InsertByKey(sorted, x, prods, sort_by, reverse) ==
    LET kx == SortKey(prods[x], sort_by)
        ahead(i) == LET ki == SortKey(prods[sorted[i]], sort_by)
                    IN IF reverse THEN ~KeyLess(ki, kx, sort_by)
                       ELSE ~KeyLess(kx, ki, sort_by)
        k == Cardinality({i \in 1..Len(sorted) : ahead(i)})
    IN SubSeq(sorted, 1, k) \o <<x>> \o SubSeq(sorted, k + 1, Len(sorted))

RECURSIVE SortedByKey(_, _, _, _)
SortedByKey(list, prods, sort_by, reverse) ==
    IF list = <<>> THEN <<>>
    ELSE InsertByKey(SortedByKey(SubSeq(list, 1, Len(list) - 1), prods, sort_by, reverse),
                     list[Len(list)], prods, sort_by, reverse)

\* the list the other way round
Reversed(list) == [i \in 1..Len(list) |-> list[Len(list) + 1 - i]]

\* a descending sort made of the ascending one, reversed
apply_sorting_reversed(prods, list, sort_by, order) ==
    IF order = "desc" THEN Reversed(SortedByKey(list, prods, sort_by, FALSE))
    ELSE SortedByKey(list, prods, sort_by, FALSE)

\* apply_sorting(products, sort_by, order)
apply_sorting(prods, list, sort_by, order) ==
    SortedByKey(list, prods, sort_by, order = "desc")

\* items[start:end] for 0 <= start <= end
Slice(items, start, end) == SubSeq(items, start + 1, Min(end, Len(items)))

\* a paginate that counts pages from 0
paginate_from_zero(items, page, page_size) ==
    LET total == Len(items)
        total_pages == IF page_size > 0 THEN (total + page_size - 1) \div page_size ELSE 1
    IN [items |-> Slice(items, page * page_size, page * page_size + page_size),
        total |-> total, page |-> page, page_size |-> page_size,
        total_pages |-> total_pages,
        has_next |-> page < total_pages, has_previous |-> page > 1]

\* a paginate that rounds the number of pages down
paginate_pages_floor(items, page, page_size) ==
    LET total == Len(items)
        total_pages == IF page_size > 0 THEN total \div page_size ELSE 1
    IN [items |-> Slice(items, (page - 1) * page_size, (page - 1) * page_size + page_size),
        total |-> total, page |-> page, page_size |-> page_size,
        total_pages |-> total_pages,
        has_next |-> page < total_pages, has_previous |-> page > 1]

\* a paginate that reports a previous page only inside the range
paginate_previous_in_range(items, page, page_size) ==
    LET total == Len(items)
        total_pages == IF page_size > 0 THEN (total + page_size - 1) \div page_size ELSE 1
    IN [items |-> Slice(items, (page - 1) * page_size, (page - 1) * page_size + page_size),
        total |-> total, page |-> page, page_size |-> page_size,
        total_pages |-> total_pages,
        has_next |-> page < total_pages,
        has_previous |-> page > 1 /\ page <= total_pages]

\* paginate(items, page, page_size), for page >= 1 and page_size >= 0
paginate(items, page, page_size) ==
    LET total == Len(items)
        total_pages == IF page_size > 0 THEN (total + page_size - 1) \div page_size ELSE 1
        start == (page - 1) * page_size
        end == start + page_size
    IN [items |-> Slice(items, start, end),
        total |-> total, page |-> page, page_size |-> page_size,
        total_pages |-> total_pages,
        has_next |-> page < total_pages, has_previous |-> page > 1]

\* --------------------------------------------------------- listing handlers
\* the criteria GET /products passes on: category_id and seller_id are
\* validated ge=1, stock_status is a StockStatus, a parameter not given is None
ListFilterInputs ==
    { EmptyDict,
      [category_id |-> 1],
      [min_price |-> 10000, max_price |-> 13000],
      [min_rating |-> 450],
      [stock_status |-> "in_stock", has_discount |-> TRUE],
      [seller_id |-> 1, has_discount |-> FALSE] }

\* the criteria GET /products/search passes on: category_id is any int
SearchFilterInputs ==
    { EmptyDict,
      [category_id |-> 0],
      [category_id |-> 1, max_price |-> 13000] }

\* q of GET /products/search: "PE" and "li"
SearchInputs == { <<80, 69>>, <<108, 105>> }

SortByInputs == {"price", "rating", "name", "created_at", "discount", "review_count"}
OrderInputs  == {"asc", "desc"}

\* list_products, line 235
list_products(t) ==
    /\ CanEnter(t)
    /\ Goto(t, "list_products_filters",
            [NoLoc EXCEPT !.via = "list_products", !.refs = AllProducts(products)])
    /\ lastOp' = Op("step", 0, 0)
    /\ UNCHANGED <<maps, counters, lock, now>>

\* search_products, line 323
search_products(t, q) ==
    /\ CanEnter(t)
    /\ Goto(t, "list_products_filters",
            [NoLoc EXCEPT !.via = "search_products", !.refs = SearchProducts(products, q)])
    /\ lastOp' = Op("step", 0, 0)
    /\ UNCHANGED <<maps, counters, lock, now>>

\* list_products, lines 238-247, and search_products, lines 326-331
list_products_filters(t, filters) ==
    /\ pc[t] = "list_products_filters"
    /\ filters \in (IF loc[t].via = "search_products" THEN SearchFilterInputs
                    ELSE ListFilterInputs)
    /\ Goto(t, "list_products_sorting",
            [loc[t] EXCEPT !.refs = apply_filters(products, loc[t].refs, filters)])
    /\ lastOp' = Op("apply_filters", [items |-> loc[t].refs, filters |-> filters],
                    apply_filters(products, loc[t].refs, filters))
    /\ UNCHANGED <<maps, counters, lock, now>>

\* list_products, line 250, and search_products, line 334
list_products_sorting(t, sort_by, order) ==
    /\ pc[t] = "list_products_sorting"
    /\ Goto(t, "list_products_paginate",
            [loc[t] EXCEPT !.refs = apply_sorting(products, loc[t].refs, sort_by, order)])
    /\ lastOp' = Op("apply_sorting",
                    [items |-> loc[t].refs, sort_by |-> sort_by, order |-> order],
                    apply_sorting(products, loc[t].refs, sort_by, order))
    /\ UNCHANGED <<maps, counters, lock, now>>

\* list_products, line 253, and search_products, line 336
list_products_paginate(t, page, page_size) ==
    /\ pc[t] = "list_products_paginate"
    /\ lastOp' = Op("paginate", [items |-> loc[t].refs],
                    paginate(loc[t].refs, page, page_size))
    /\ Return(t)
    /\ UNCHANGED <<maps, counters, lock, now>>

\* An Optional[int] argument is a sequence: <<>> is None, <<v>> the value v.
\* "if category_id:" is false for None and for 0
Truthy(category_id) == category_id # <<>> /\ category_id[1] # 0

\* the first lines of each composed query: the products of the category if
\* category_id is true, all products otherwise
Scoped(prods, category_id) ==
    IF Truthy(category_id) THEN ProductsByCategory(prods, category_id[1])
    ELSE AllProducts(prods)

\* a top-rated list that lets the products below the review floor through
TopRatedUnfiltered(prods, category_id, min_reviews, limit) ==
    Take(SortedByKey(Scoped(prods, category_id), prods, "rating", TRUE), limit)

\* get_top_rated, lines 141-152
TopRated(prods, category_id, min_reviews, limit) ==
    LET reviewed == SelectSeq(Scoped(prods, category_id),
                        LAMBDA p : Get(prods[p], "review_count", 0) >= min_reviews)
    IN Take(SortedByKey(reviewed, prods, "rating", TRUE), limit)

get_top_rated(t, category_id, min_reviews, limit) ==
    /\ CanEnter(t)
    /\ lastOp' = Op("get_top_rated",
                    [category_id |-> category_id, min_reviews |-> min_reviews,
                     limit |-> limit],
                    TopRated(products, category_id, min_reviews, limit))
    /\ UNCHANGED <<maps, counters, lock, pc, loc, now>>

\* a deals list that lets the products below the discount floor through
BestDealsUnfiltered(prods, category_id, min_discount, limit) ==
    Take(SortedByKey(Scoped(prods, category_id), prods, "discount", TRUE), limit)

\* get_best_deals, lines 186-200
BestDeals(prods, category_id, min_discount, limit) ==
    LET discounted == SelectSeq(Scoped(prods, category_id),
                          LAMBDA p : Get(prods[p], "discount_percentage", 0) >= min_discount)
    IN Take(SortedByKey(discounted, prods, "discount", TRUE), limit)

get_best_deals(t, category_id, min_discount, limit) ==
    /\ CanEnter(t)
    /\ lastOp' = Op("get_best_deals",
                    [category_id |-> category_id, min_discount |-> min_discount,
                     limit |-> limit],
                    BestDeals(products, category_id, min_discount, limit))
    /\ UNCHANGED <<maps, counters, lock, pc, loc, now>>

\* get_popular_products, lines 219-227
Popular(prods, category_id, limit) ==
    Take(SortedByKey(Scoped(prods, category_id), prods, "review_count", TRUE), limit)

get_popular_products(t, category_id, limit) ==
    /\ CanEnter(t)
    /\ lastOp' = Op("get_popular_products",
                    [category_id |-> category_id, limit |-> limit],
                    Popular(products, category_id, limit))
    /\ UNCHANGED <<maps, counters, lock, pc, loc, now>>

\* get_new_arrivals, lines 283-291
NewArrivals(prods, category_id, limit) ==
    Take(SortedByKey(Scoped(prods, category_id), prods, "created_at", TRUE), limit)

get_new_arrivals(t, category_id, limit) ==
    /\ CanEnter(t)
    /\ lastOp' = Op("get_new_arrivals",
                    [category_id |-> category_id, limit |-> limit],
                    NewArrivals(products, category_id, limit))
    /\ UNCHANGED <<maps, counters, lock, pc, loc, now>>

\* a price range that leaves out the products priced at one of its bounds
PriceRangeExclusive(prods, min_price, max_price, category_id, limit) ==
    LET price(p) == Get(prods[p], "final_price", Get(prods[p], "price", 0))
        in_range == SelectSeq(Scoped(prods, category_id),
                        LAMBDA p : min_price < price(p) /\ price(p) < max_price)
    IN Take(SortedByKey(in_range, prods, "rating", TRUE), limit)

\* get_price_range_products, lines 250-264
PriceRange(prods, min_price, max_price, category_id, limit) ==
    LET price(p) == Get(prods[p], "final_price", Get(prods[p], "price", 0))
        in_range == SelectSeq(Scoped(prods, category_id),
                        LAMBDA p : min_price <= price(p) /\ price(p) <= max_price)
    IN Take(SortedByKey(in_range, prods, "rating", TRUE), limit)

Status400 == [status |-> 400]

\* a price-range handler that passes every range on to the service
get_by_price_range_unchecked(t, min_price, max_price, category_id, limit) ==
    /\ CanEnter(t)
    /\ lastOp' = Op("get_by_price_range",
                    [min_price |-> min_price, max_price |-> max_price,
                     category_id |-> category_id, limit |-> limit],
                    Status200(PriceRange(products, min_price, max_price,
                                         category_id, limit)))
    /\ UNCHANGED <<maps, counters, lock, pc, loc, now>>

\* GET /recommendations/price-range: an inverted range is answered 400 by the
\* handler itself; any other range goes to get_price_range_products, which
\* reads the store under its lock
get_by_price_range(t, min_price, max_price, category_id, limit) ==
    /\ pc[t] = "idle"
    /\ IF min_price > max_price
       THEN lastOp' = Op("get_by_price_range",
                         [min_price |-> min_price, max_price |-> max_price,
                          category_id |-> category_id, limit |-> limit],
                         Status400)
       ELSE /\ lock = 0
            /\ lastOp' = Op("get_by_price_range",
                            [min_price |-> min_price, max_price |-> max_price,
                             category_id |-> category_id, limit |-> limit],
                            Status200(PriceRange(products, min_price, max_price,
                                                 category_id, limit)))
    /\ UNCHANGED <<maps, counters, lock, pc, loc, now>>

\* ---------------------------------------------------------- specifications
\* the rating aggregate: reviews inserted and recomputed by several threads
NextRatings ==
    \/ \E t \in Threads : create_product(t, PlainProduct)
    \/ \E t \in Threads : \E p \in ProductIds : delete_product(t, p)
    \/ \E t \in Threads : \E p \in ProductIds : update_product_rating(t, p)
    \/ \E t \in Threads : \E d \in ReviewInputs : create_review(t, d)
    \/ \E t \in Threads : create_review_rating(t)
    \/ \E t \in Threads : \E p \in ProductIds :
          update_product(t, p, [discount_percentage |-> 50])
    \/ \E t \in Threads : update_product_final(t)

SpecRatings == Init /\ [][NextRatings]_vars

\* prices: products created and updated by several threads
NextPrices ==
    \/ Tick
    \/ \E t \in Threads : \E d \in ProductInputs : create_product(t, d)
    \/ \E t \in Threads : \E p \in ProductIds : \E d \in UpdateInputs :
          update_product(t, p, d)
    \/ \E t \in Threads : update_product_final(t)
    \/ \E t \in Threads : create_review(t, [product_id |-> 1, user_id |-> 1, rating |-> 5])
    \/ \E t \in Threads : create_review_rating(t)

SpecPrices == Init /\ [][NextPrices]_vars

\* ids: records of every type created, products deleted with their reviews
NextIds ==
    \/ \E t \in Threads : create_product(t, PlainProduct)
    \/ \E t \in Threads : \E p \in ProductIds : delete_product(t, p)
    \/ \E t \in Threads : \E p \in ProductIds :
          create_review(t, [product_id |-> p, user_id |-> 1, rating |-> 5])
    \/ \E t \in Threads : create_review_rating(t)
    \/ \E t \in Threads : create_user(t, UserInput)
    \/ \E t \in Threads : create_seller(t, SellerInput, ApiKey)
    \/ \E t \in Threads : create_category(t, CategoryInput)

SpecIds == Init /\ [][NextIds]_vars

\* the store's operations called with ids present and absent
NextLookup ==
    \/ \E t \in Threads : \E d \in ProductInputs : create_product(t, d)
    \/ \E t \in Threads : \E p \in ProductIds : get_product(t, p)
    \/ \E t \in Threads : \E p \in ProductIds :
          update_product(t, p, [discount_percentage |-> 50])
    \/ \E t \in Threads : update_product_final(t)
    \/ \E t \in Threads : \E p \in ProductIds : delete_product(t, p)
    \/ \E t \in Threads : \E p \in ProductIds : update_product_rating(t, p)
    \/ \E t \in Threads : create_review(t, [product_id |-> 1, user_id |-> 1, rating |-> 4])
    \/ \E t \in Threads : create_review_rating(t)
    \/ \E t \in Threads : \E r \in ReviewIds : increment_helpful(t, r)
    \/ \E t \in Threads : increment_helpful_add(t)
    \/ \E t \in Threads : \E p \in ProductIds : \E n \in 1..MaxLimit : \E b \in BOOLEAN :
          get_similar_products(t, p, n, b)
    \/ \E t \in Threads : get_similar_products_candidates(t)

SpecLookup == Init /\ [][NextLookup]_vars

\* the request handlers, with products updated and deleted meanwhile
NextHandlers ==
    \/ \E t \in Threads : create_product(t, PlainProduct)
    \/ \E t \in Threads : create_user(t, UserInput)
    \/ \E t \in Threads : \E p \in ProductIds :
          update_product(t, p, [discount_percentage |-> 50])
    \/ \E t \in Threads : update_product_final(t)
    \/ \E t \in Threads : \E p \in ProductIds : delete_product(t, p)
    \/ \E t \in Threads : \E p \in ProductIds : \E u \in UserIds :
          router_create_review(t, p, [user_id |-> u, rating |-> 5])
    \/ \E t \in Threads : router_create_review_user(t)
    \/ \E t \in Threads : router_create_review_insert(t)
    \/ \E t \in Threads : create_review_rating(t)
    \/ \E t \in Threads : router_create_review_name(t)
    \/ \E t \in Threads : \E p \in ProductIds : router_get_product_reviews(t, p)
    \/ \E t \in Threads : \E p \in ProductIds : router_get_product(t, p)
    \/ \E t \in Threads : router_reviews_list(t)
    \/ \E t \in Threads : router_reviews_names(t)
    \/ \E t \in Threads : router_get_product_build(t)

SpecHandlers == Init /\ [][NextHandlers]_vars

\* the queries are pure functions of the store: one caller applies them to
\* the seeded catalogue
Caller == CHOOSE t \in Threads : TRUE

MaxMinReviews == 3

\* the category_id arguments: None, 0, and the ids of the seeded categories
CategoryInputs == {<<>>} \cup {<<c>> : c \in 0..Len(SeedCategories)}

\* the discount floors and the price bounds the queries are called with
MinDiscountInputs == {20, 50}
PriceInputs       == {10000, 13000}

\* the listing pipeline: fetch, filter, sort, page
NextListing ==
    \/ list_products(Caller)
    \/ \E q \in SearchInputs : search_products(Caller, q)
    \/ \E f \in ListFilterInputs \cup SearchFilterInputs : list_products_filters(Caller, f)
    \/ \E s \in SortByInputs : \E o \in OrderInputs : list_products_sorting(Caller, s, o)
    \/ \E page \in 1..MaxPage : \E page_size \in 0..MaxPageSize :
          list_products_paginate(Caller, page, page_size)

SpecListing == InitCatalog /\ [][NextListing]_vars

\* the recommendation queries on the seeded catalogue
NextRecommend ==
    \/ \E p \in 1..MaxCatalog : \E n \in 1..MaxLimit : \E b \in BOOLEAN :
          get_similar_products(Caller, p, n, b)
    \/ get_similar_products_candidates(Caller)
    \/ \E c \in CategoryInputs : \E m \in 1..MaxMinReviews : \E n \in 1..MaxLimit :
          get_top_rated(Caller, c, m, n)
    \/ \E c \in CategoryInputs : \E d \in MinDiscountInputs : \E n \in 1..MaxLimit :
          get_best_deals(Caller, c, d, n)
    \/ \E c \in CategoryInputs : \E n \in 1..MaxLimit :
          get_popular_products(Caller, c, n)
    \/ \E c \in CategoryInputs : \E n \in 1..MaxLimit :
          get_new_arrivals(Caller, c, n)
    \/ \E lo \in PriceInputs : \E hi \in PriceInputs :
          \E c \in CategoryInputs : \E n \in 1..MaxLimit :
             get_by_price_range(Caller, lo, hi, c, n)

SpecRecommend == InitCatalog /\ [][NextRecommend]_vars

\* the store's operations called by several threads at once
NextStore ==
    \/ \E t \in Threads : create_product(t, PlainProduct)
    \/ \E t \in Threads : \E p \in ProductIds : get_product(t, p)
    \/ \E t \in Threads : \E p \in ProductIds :
          update_product(t, p, [discount_percentage |-> 50])
    \/ \E t \in Threads : update_product_final(t)
    \/ \E t \in Threads : \E p \in ProductIds : delete_product(t, p)
    \/ \E t \in Threads : create_review(t, [product_id |-> 1, user_id |-> 1, rating |-> 4])
    \/ \E t \in Threads : create_review_rating(t)
    \/ \E t \in Threads : \E r \in ReviewIds : increment_helpful(t, r)
    \/ \E t \in Threads : increment_helpful_add(t)

SpecStore == Init /\ [][NextStore]_vars

\* threading.Lock, taken to be fair as the claim of termination assumes: a
\* thread inside a critical section runs on to its end, and a thread that
\* waits for the lock gets it if the lock is free again and again; each of
\* these steps moves the thread on, so it changes pc
StoreFairness ==
    \A t \in Threads :
        /\ WF_pc(update_product_final(t))
        /\ WF_pc(increment_helpful_add(t))
        /\ SF_pc(create_review_rating(t))

SpecStoreFair == SpecStore /\ StoreFairness

\* records of every type created, reviews marked helpful, products deleted
\* and the store cleared
NextRecords ==
    \/ \E t \in Threads : create_product(t, PlainProduct)
    \/ \E t \in Threads : \E p \in ProductIds : delete_product(t, p)
    \/ \E t \in Threads : \E p \in ProductIds :
          create_review(t, [product_id |-> p, user_id |-> 1, rating |-> 5])
    \/ \E t \in Threads : create_review_rating(t)
    \/ \E t \in Threads : create_user(t, UserInput)
    \/ \E t \in Threads : create_seller(t, SellerInput, ApiKey)
    \/ \E t \in Threads : create_category(t, CategoryInput)
    \/ \E t \in Threads : \E r \in ReviewIds : increment_helpful(t, r)
    \/ \E t \in Threads : increment_helpful_add(t)
    \/ \E t \in Threads : clear_all(t)

SpecRecords == Init /\ [][NextRecords]_vars

\* the mark-helpful handler, with products and their reviews deleted meanwhile
NextMarkHelpful ==
    \/ \E t \in Threads : create_product(t, PlainProduct)
    \/ \E t \in Threads : create_review(t, [product_id |-> 1, user_id |-> 1, rating |-> 4])
    \/ \E t \in Threads : create_review_rating(t)
    \/ \E t \in Threads : \E r \in ReviewIds : mark_review_helpful(t, r)
    \/ \E t \in Threads : increment_helpful_add(t)
    \/ \E t \in Threads : mark_review_helpful_get(t)
    \/ \E t \in Threads : \E p \in ProductIds : delete_product(t, p)

SpecMarkHelpful == Init /\ [][NextMarkHelpful]_vars

\* every query of the listing pipeline and of the recommendation service
NextQueries == NextListing \/ NextRecommend

SpecQueries == InitCatalog /\ [][NextQueries]_vars

Next == NextRatings \/ NextPrices \/ NextIds \/ NextLookup \/ NextHandlers
           \/ NextListing \/ NextRecommend \/ NextQueries \/ NextStore
           \/ NextMarkHelpful \/ NextRecords

Spec == Init /\ [][Next]_vars

\* ------------------------------------------------------- rating aggregate
RatingSum(p) == SumOver([r \in ReviewsOf(reviews, p) |-> reviews[r].rating],
                        ReviewsOf(reviews, p))

\* the product's aggregate is the count of its stored reviews and their
\* mean to the nearest hundredth (0 and 0 without reviews)
AggregateMatches(p) ==
    LET n == Cardinality(ReviewsOf(reviews, p))
        a == products[p].average_rating
        d == Scale * RatingSum(p) - a * n
    IN /\ products[p].review_count = n
       /\ IF n = 0 THEN a = 0 ELSE 2 * d <= n /\ -2 * d <= n

\* a create_review call is between its insert and its recomputation for p
Pending(p) ==
    \E t \in Threads : pc[t] = "create_review_rating" /\ loc[t].data.product_id = p

\* C1 as stated: in every reachable state every stored product's review_count
\* and average_rating match the stored reviews that refer to it
C1_AggregateAlways == \A p \in DOMAIN products : AggregateMatches(p)

\* C1 amended: every stored product's review_count and average_rating match
\* the stored reviews that refer to it in every state in which no
\* create_review call for that product is between its insert and its
\* recomputation
C1_AggregateUnlessPending ==
    \A p \in DOMAIN products : ~Pending(p) => AggregateMatches(p)

\* two threads have inserted and recomputed for product 1, which holds two
\* reviews, while a call for another product is still before its recomputation
C1_Witness ==
    /\ 1 \in DOMAIN products
    /\ products[1].review_count = 2
    /\ ~Pending(1)
    /\ \E t \in Threads : pc[t] = "create_review_rating"

\* C2: once no create_review call is in progress every stored product's
\* review_count and average_rating are those of the reviews inserted for it,
\* and a call that is about to recompute has its review in the review map
\* (unless the product and its reviews were deleted since)
C2_FinalAggregate ==
    /\ (\A t \in Threads : pc[t] # "create_review_rating")
          => \A p \in DOMAIN products : AggregateMatches(p)
    /\ \A t \in Threads : pc[t] = "create_review_rating" =>
          /\ loc[t].rid \in 1..review_counter
          /\ \/ loc[t].rid \in DOMAIN reviews
             \/ loc[t].data.product_id \notin DOMAIN products

\* ratings 5, 5, 4 inserted for a product, all calls returned: 4.67 and 3
C2_Witness ==
    /\ \A t \in Threads : pc[t] = "idle"
    /\ \E p \in DOMAIN products :
          /\ Cardinality(ReviewsOf(reviews, p)) = 3
          /\ RatingSum(p) = 14
          /\ products[p].average_rating = 467
          /\ products[p].review_count = 3

\* ------------------------------------------------------------- final price
\* fp is price * (1 - discount / 100) to the nearest hundredth
IsFinalPrice(fp, price, discount) ==
    LET d == price * (100 - discount) - 100 * fp
    IN 2 * d <= 100 /\ -2 * d <= 100

\* an update_product call is between its merge and its recalculation for p
Updating(p) ==
    \E t \in Threads : pc[t] = "update_product_final" /\ loc[t].pid = p

\* C3: after any sequence of create_product and update_product calls every
\* stored product's final_price is round(price * (1 - discount/100), 2) of
\* its current price and discount_percentage, whatever final_price the
\* caller's data carried
C3_FinalPriceInSync ==
    \A p \in DOMAIN products :
        ~Updating(p) =>
            IsFinalPrice(products[p].final_price, products[p].price,
                         products[p].discount_percentage)

\* an update whose data carried final_price = 0.01 with price 9.99 has
\* returned: the product is priced 9.99 at 50% and its final_price is 5.00
C3_Witness ==
    /\ lastOp.op = "update_product"
    /\ lastOp.ret \in DOMAIN products
    /\ products[lastOp.ret].price = 999
    /\ products[lastOp.ret].discount_percentage = 50
    /\ products[lastOp.ret].final_price = 500
    /\ products[lastOp.ret].created_at < products[lastOp.ret].updated_at

\* C8: an update_product call on an existing product leaves every field that
\* is not in its data, other than final_price and updated_at, as it was,
\* sets the fields of its data, recalculates final_price, and changes no
\* other product and no review
C8_UpdateFrame ==
    [][\A t \in Threads :
        /\ (pc[t] = "idle" /\ pc'[t] = "update_product_final") =>
              /\ reviews' = reviews
              /\ DOMAIN products' = DOMAIN products
              /\ \A q \in DOMAIN products \ {loc'[t].pid} : products'[q] = products[q]
        /\ (pc[t] = "update_product_final" /\ pc'[t] = "idle") =>
              LET p == loc[t].pid
                  old == loc[t].old
                  data == loc[t].data
                  new == products'[p]
              IN /\ reviews' = reviews
                 /\ DOMAIN products' = DOMAIN products
                 /\ \A q \in DOMAIN products \ {p} : products'[q] = products[q]
                 /\ DOMAIN new = DOMAIN old
                 /\ \A f \in DOMAIN old \ (DOMAIN data \cup {"final_price", "updated_at"}) :
                       new[f] = old[f]
                 /\ \A f \in DOMAIN data \ {"final_price"} : new[f] = data[f]
                 /\ IsFinalPrice(new.final_price, new.price, new.discount_percentage)
    ]_vars

\* price 100 at 25% (final price 75.0) with one review, created earlier:
\* an update of the discount alone to 50 has returned, final_price is 50.0
\* and the price is still 100
C8_Witness ==
    /\ lastOp.op = "update_product"
    /\ lastOp.ret \in DOMAIN products
    /\ products[lastOp.ret].price = 10000
    /\ products[lastOp.ret].discount_percentage = 50
    /\ products[lastOp.ret].final_price = 5000
    /\ products[lastOp.ret].review_count = 1
    /\ products[lastOp.ret].created_at < products[lastOp.ret].updated_at

\* ------------------------------------------------------------------ delete
\* C4: delete_product(p) on a stored product returns true and removes, in
\* that one step, p and exactly the reviews whose product_id is p; every
\* other product and review, the users, sellers, categories and the id
\* counters stay as they were
C4_DeleteCascade ==
    [][(lastOp'.op = "delete_product" /\ lastOp'.arg \in DOMAIN products) =>
          LET p == lastOp'.arg
          IN /\ lastOp'.ret = TRUE
             /\ DOMAIN products' = DOMAIN products \ {p}
             /\ \A q \in DOMAIN products' : products'[q] = products[q]
             /\ DOMAIN reviews' = {r \in DOMAIN reviews : reviews[r].product_id # p}
             /\ \A r \in DOMAIN reviews' : reviews'[r] = reviews[r]
             /\ UNCHANGED <<users, sellers, categories, api_keys, counters>>
    ]_vars

\* a product with a review has just been deleted while another product with
\* a review, a user, a seller and a category are stored
C4_Witness ==
    /\ lastOp.op = "delete_product"
    /\ lastOp.ret = TRUE
    /\ review_counter > Cardinality(DOMAIN reviews)
    /\ \E q \in DOMAIN products : ReviewsOf(reviews, q) # {}
    /\ users # EmptyDict /\ sellers # EmptyDict /\ categories # EmptyDict

\* --------------------------------------------------------------- not found
\* C9: a store operation on an id that is not stored returns None, false or
\* the empty list and leaves every map and counter as it was
C9_NotFoundChangesNothing ==
    [][/\ (lastOp'.op \in {"get_product", "update_product"}
             /\ lastOp'.arg \notin DOMAIN products)
          => (lastOp'.ret = 0 /\ UNCHANGED store)
       /\ (lastOp'.op = "delete_product" /\ lastOp'.arg \notin DOMAIN products)
          => (lastOp'.ret = FALSE /\ UNCHANGED store)
       /\ (lastOp'.op = "increment_helpful" /\ lastOp'.arg \notin DOMAIN reviews)
          => (lastOp'.ret = FALSE /\ UNCHANGED store)
       /\ (lastOp'.op = "update_product_rating" /\ lastOp'.arg \notin DOMAIN products)
          => UNCHANGED store
       /\ (lastOp'.op = "get_similar_products" /\ pc' = pc
             /\ lastOp'.arg \notin DOMAIN products)
          => (lastOp'.ret = <<>> /\ UNCHANGED store)
    ]_vars

\* update_product has returned None for the id of a deleted product while a
\* review that refers to it and another product are stored
C9_Witness ==
    /\ lastOp.op = "update_product"
    /\ lastOp.ret = 0
    /\ lastOp.arg \in 1..product_counter
    /\ lastOp.arg \notin DOMAIN products
    /\ ReviewsOf(reviews, lastOp.arg) # {}
    /\ products # EmptyDict

\* --------------------------------------------------------------------- ids
\* the step is the insert of create_review by some thread
ReviewInserted ==
    \E t \in Threads : pc[t] # "create_review_rating" /\ pc'[t] = "create_review_rating"

\* C10: every create takes the next value of its type's counter, which
\* starts at 0 and changes in no other way: the record created gets an id
\* one above every id assigned before, deleted ones included
C10_SequentialIds ==
    [][/\ IF lastOp'.op = "create_product"
          THEN /\ lastOp'.ret = product_counter + 1
               /\ product_counter' = product_counter + 1
               /\ lastOp'.ret \notin DOMAIN products
               /\ DOMAIN products' = DOMAIN products \cup {lastOp'.ret}
               /\ products'[lastOp'.ret].id = lastOp'.ret
          ELSE product_counter' = product_counter
       /\ IF ReviewInserted
          THEN /\ review_counter' = review_counter + 1
               /\ DOMAIN reviews' = DOMAIN reviews \cup {review_counter + 1}
               /\ reviews'[review_counter + 1].id = review_counter + 1
               /\ \E t \in Threads : loc'[t].rid = review_counter + 1
          ELSE review_counter' = review_counter
       /\ IF lastOp'.op = "create_user"
          THEN /\ lastOp'.ret = user_counter + 1
               /\ user_counter' = user_counter + 1
               /\ DOMAIN users' = DOMAIN users \cup {lastOp'.ret}
               /\ users'[lastOp'.ret].id = lastOp'.ret
          ELSE user_counter' = user_counter
       /\ IF lastOp'.op = "create_seller"
          THEN /\ lastOp'.ret = seller_counter + 1
               /\ seller_counter' = seller_counter + 1
               /\ DOMAIN sellers' = DOMAIN sellers \cup {lastOp'.ret}
               /\ sellers'[lastOp'.ret].id = lastOp'.ret
          ELSE seller_counter' = seller_counter
       /\ IF lastOp'.op = "create_category"
          THEN /\ lastOp'.ret = category_counter + 1
               /\ category_counter' = category_counter + 1
               /\ DOMAIN categories' = DOMAIN categories \cup {lastOp'.ret}
               /\ categories'[lastOp'.ret].id = lastOp'.ret
          ELSE category_counter' = category_counter
       /\ DOMAIN products' \subseteq 1..product_counter'
       /\ DOMAIN reviews' \subseteq 1..review_counter'
    ]_vars

\* product 1 was deleted and the next create has just returned id 2, with a
\* review inserted by a call still in progress
C10_Witness ==
    /\ lastOp.op = "create_product"
    /\ lastOp.ret = 2
    /\ DOMAIN products = {2}
    /\ review_counter >= 1
    /\ \E t \in Threads : pc[t] = "create_review_rating"

\* ---------------------------------------------------------------- handlers
\* C5: no stored review refers to a product that is not stored: the review
\* creation handler inserts a review only for a product that exists at the
\* moment of the insert, whatever delete_product does meanwhile
C5_NoOrphanReview ==
    \A r \in DOMAIN reviews : reviews[r].product_id \in DOMAIN products

\* C6: the product a handler fetched with get_product reads as a consistent
\* snapshot when the handler uses it: its final_price is that of its price
\* and discount_percentage, and every field is as it was when it was fetched
C6_ConsistentSnapshot ==
    (lastOp.op = "router_get_product" /\ lastOp.ret.status = 200) =>
        /\ IsFinalPrice(lastOp.ret.body.final_price, lastOp.ret.body.price,
                        lastOp.ret.body.discount_percentage)
        /\ lastOp.ret.body = lastOp.ret.fetched

\* C7: a step a request handler takes on the records a store read handed to
\* it changes no stored record
C7_HandlersLeaveRecords ==
    [][lastOp'.op \in {"router_create_review", "router_get_product_reviews",
                       "router_get_product_names", "router_get_product"}
          => UNCHANGED maps
    ]_vars

\* ------------------------------------------------------------------ filters
\* the values a criterion takes when it is present
CriterionValues ==
    [category_id : {0, 1, 2}, min_price : {10000}, max_price : {13000},
     min_rating : {450}, stock_status : {"in_stock"}, seller_id : {1},
     has_discount : BOOLEAN]

CriterionNames ==
    {"category_id", "min_price", "max_price", "min_rating", "stock_status",
     "seller_id", "has_discount"}

\* every criteria object: any combination of criteria, each possibly absent
AllCriteria == {Restrict(v, S) : v \in CriterionValues, S \in SUBSET CriterionNames}

\* the criteria objects the handler that fetched the list can pass on
CriteriaFor(via) ==
    IF via = "search_products"
    THEN {C \in AllCriteria : DOMAIN C \subseteq {"category_id", "min_price", "max_price"}}
    ELSE {C \in AllCriteria : "category_id" \in DOMAIN C => C.category_id >= 1}

\* product p satisfies every criterion present in C
Satisfies(p, C) ==
    /\ "category_id" \in DOMAIN C => p.category_id = C.category_id
    /\ "min_price" \in DOMAIN C => p.final_price >= C.min_price
    /\ "max_price" \in DOMAIN C => p.final_price <= C.max_price
    /\ "min_rating" \in DOMAIN C => p.average_rating >= C.min_rating
    /\ "stock_status" \in DOMAIN C => p.stock_status = C.stock_status
    /\ "seller_id" \in DOMAIN C => p.seller_id = C.seller_id
    /\ ("has_discount" \in DOMAIN C /\ C.has_discount) => p.discount_percentage > 0

\* a thread that holds the list it fetched and is about to filter it
Filtering(t) == pc[t] = "list_products_filters"

\* C11: what apply_filters returns is made of elements of its input, and
\* every returned product satisfies every criterion present in the criteria
C11_FiltersSound ==
    lastOp.op = "apply_filters" =>
        \A i \in 1..Len(lastOp.ret) :
            /\ lastOp.ret[i] \in Range(lastOp.arg.items)
            /\ Satisfies(products[lastOp.ret[i]], lastOp.arg.filters)

\* C12: for the list a handler holds and every criteria object, apply_filters
\* returns every product that satisfies the criteria present, in the order of
\* the list; no criteria remove nothing; has_discount = true, added to other
\* criteria, keeps exactly the products with discount_percentage > 0
C12_FiltersComplete ==
    \A t \in Threads : Filtering(t) =>
        LET P == loc[t].refs
        IN /\ apply_filters(products, P, EmptyDict) = P
           /\ \A C \in CriteriaFor(loc[t].via) :
                 LET R == apply_filters(products, P, C)
                 IN /\ \A i \in 1..Len(P) :
                          Satisfies(products[P[i]], C) => P[i] \in Range(R)
                    /\ R = SelectSeq(P, LAMBDA p : p \in Range(R))
                    /\ ("has_discount" \in DOMAIN C /\ C.has_discount) =>
                          R = SelectSeq(
                                apply_filters(products, P,
                                              Restrict(C, DOMAIN C \ {"has_discount"})),
                                LAMBDA p : products[p].discount_percentage > 0)

\* both price bounds have been applied: a product priced at each bound was
\* kept and another product was removed
C12_Witness ==
    /\ lastOp.op = "apply_filters"
    /\ DOMAIN lastOp.arg.filters = {"min_price", "max_price"}
    /\ \E p, q \in Range(lastOp.ret) :
          /\ products[p].final_price = lastOp.arg.filters.min_price
          /\ products[q].final_price = lastOp.arg.filters.max_price
          /\ products[p].price # products[p].final_price
    /\ Len(lastOp.ret) < Len(lastOp.arg.items)

\* C13: for the list a handler holds and any two criteria objects over
\* disjoint names, filtering by one and then by the other gives the same list
\* in either order, the list filtering by both at once gives
C13_FiltersCommute ==
    \A t \in Threads : Filtering(t) =>
        LET P == loc[t].refs
        IN \A C1, C2 \in CriteriaFor(loc[t].via) :
              DOMAIN C1 \cap DOMAIN C2 = {} =>
                 LET one_two == apply_filters(products,
                                              apply_filters(products, P, C1), C2)
                     two_one == apply_filters(products,
                                              apply_filters(products, P, C2), C1)
                 IN /\ one_two = two_one
                    /\ one_two = apply_filters(products, P, Merged(C1, C2))

\* two criteria have been applied together: one product fails only the
\* first, another only the second, a third passes both
C13_Witness ==
    /\ lastOp.op = "apply_filters"
    /\ DOMAIN lastOp.arg.filters = {"stock_status", "has_discount"}
    /\ lastOp.arg.filters.has_discount
    /\ Len(lastOp.ret) > 0
    /\ \E p, q \in Range(lastOp.arg.items) :
          /\ products[p].stock_status # lastOp.arg.filters.stock_status
          /\ products[p].discount_percentage > 0
          /\ products[q].stock_status = lastOp.arg.filters.stock_status
          /\ products[q].discount_percentage = 0

\* ------------------------------------------------------------------ sorting
\* the key the products are ordered by: the final price, the average rating,
\* the name without regard to case, the creation time, the discount
\* percentage, the number of reviews
OrderKey(p, key) ==
    CASE key = "price"        -> p.final_price
      [] key = "rating"       -> p.average_rating
      [] key = "name"         -> Lower(p.name)
      [] key = "created_at"   -> p.created_at
      [] key = "discount"     -> p.discount_percentage
      [] key = "review_count" -> p.review_count

\* p comes strictly before q in the ascending order of key
Precedes(p, q, key) ==
    IF key = "name" THEN LexLess(OrderKey(p, key), OrderKey(q, key))
    ELSE OrderKey(p, key) < OrderKey(q, key)

\* the position of x in a list without repetitions
IndexOf(list, x) == CHOOSE i \in 1..Len(list) : list[i] = x

\* R is P rearranged: the same products, each once
IsPermutation(R, P) ==
    /\ Len(R) = Len(P)
    /\ Range(R) = Range(P)

\* a thread that holds the filtered list and is about to sort it
Sorting(t) == pc[t] = "list_products_sorting"

\* C14: for the list a handler holds, every key and both directions,
\* apply_sorting returns a permutation of the list that is ordered by the key
\* in the direction asked for, two products with equal keys staying in the
\* order they have in the list, descending as well as ascending
C14_SortStable ==
    \A t \in Threads : Sorting(t) =>
        LET P == loc[t].refs
        IN \A key \in SortByInputs : \A order \in OrderInputs :
              LET R == apply_sorting(products, P, key, order)
              IN /\ IsPermutation(R, P)
                 /\ \A i, j \in 1..Len(R) : i < j =>
                       LET a == products[R[i]]
                           b == products[R[j]]
                       IN /\ order = "asc" => ~Precedes(b, a, key)
                          /\ order = "desc" => ~Precedes(a, b, key)
                          /\ (~Precedes(a, b, key) /\ ~Precedes(b, a, key))
                                => IndexOf(P, R[i]) < IndexOf(P, R[j])

\* a descending sort by name has put the products in another order than the
\* list had, and two of them, whose names differ in case only, have stayed
\* in the order of the list
C14_Witness ==
    /\ lastOp.op = "apply_sorting"
    /\ lastOp.arg.order = "desc"
    /\ lastOp.arg.sort_by = "name"
    /\ lastOp.ret # lastOp.arg.items
    /\ \E i, j \in 1..Len(lastOp.ret) :
          /\ i < j
          /\ lastOp.ret[i] < lastOp.ret[j]
          /\ products[lastOp.ret[i]].name # products[lastOp.ret[j]].name
          /\ Lower(products[lastOp.ret[i]].name) = Lower(products[lastOp.ret[j]].name)

\* --------------------------------------------------------------- pagination
\* ceil(total / page_size): the least number of pages of page_size items
\* that hold total items
CeilDiv(total, page_size) ==
    CHOOSE n \in 0..total : n * page_size >= total /\ (n = 0 \/ (n - 1) * page_size < total)

\* the items of pages 1..n, one after the other
RECURSIVE PagesJoined(_, _, _)
PagesJoined(items, n, page_size) ==
    IF n = 0 THEN <<>>
    ELSE PagesJoined(items, n - 1, page_size) \o paginate(items, n, page_size).items

\* a thread that holds the sorted list and is about to page it
Paginating(t) == pc[t] = "list_products_paginate"

\* C15: for the list a handler holds and every page size of at least 1, no
\* page has more items than the page size, and the pages 1..total_pages, one
\* after the other, are the list
C15_PagesRebuildList ==
    \A t \in Threads : Paginating(t) =>
        LET P == loc[t].refs
        IN \A page_size \in 1..MaxPageSize :
              LET total_pages == paginate(P, 1, page_size).total_pages
              IN /\ \A page \in 1..MaxPage :
                       Len(paginate(P, page, page_size).items) <= page_size
                 /\ PagesJoined(P, total_pages, page_size) = P

\* the last page of a list that does not fill it has been returned
C15_Witness ==
    /\ lastOp.op = "paginate"
    /\ lastOp.ret.page_size > 1
    /\ lastOp.ret.page = lastOp.ret.total_pages
    /\ lastOp.ret.page > 1
    /\ Len(lastOp.ret.items) = 1
    /\ lastOp.ret.items = <<lastOp.arg.items[Len(lastOp.arg.items)]>>

\* C16: paginate reports the number of items as total, ceil(total / page_size)
\* as total_pages (1 for page_size 0), has_next exactly when page <
\* total_pages, has_previous exactly when page > 1, and as items the part of
\* the list from index (page - 1) * page_size on, page_size items at most
C16_PageMetadata ==
    \A t \in Threads : Paginating(t) =>
        LET P == loc[t].refs
        IN \A page \in 1..MaxPage : \A page_size \in 0..MaxPageSize :
              LET r == paginate(P, page, page_size)
                  first == (page - 1) * page_size
                  count == Max(0, Min(page_size, Len(P) - first))
              IN /\ r.total = Len(P)
                 /\ r.total_pages = IF page_size = 0 THEN 1 ELSE CeilDiv(Len(P), page_size)
                 /\ r.has_next = (page < r.total_pages)
                 /\ r.has_previous = (page > 1)
                 /\ r.items = [i \in 1..count |-> P[first + i]]

\* a first page has been returned of a list that needs a second, shorter one
C16_Witness ==
    /\ lastOp.op = "paginate"
    /\ lastOp.ret.page = 1
    /\ lastOp.ret.page_size = 2
    /\ lastOp.ret.total = 3
    /\ lastOp.ret.total_pages = 2
    /\ lastOp.ret.has_next
    /\ ~lastOp.ret.has_previous
    /\ Len(lastOp.ret.items) = 2

\* C17 as stated: every page beyond the last one, for a page size of at least
\* 1, is empty, carries the right total and total_pages, has a previous page
\* and no next page
C17_BeyondLastPage ==
    \A t \in Threads : Paginating(t) =>
        LET P == loc[t].refs
        IN \A page \in 1..MaxPage : \A page_size \in 1..MaxPageSize :
              LET r == paginate(P, page, page_size)
              IN page > CeilDiv(Len(P), page_size) =>
                    /\ r.items = <<>>
                    /\ r.total = Len(P)
                    /\ r.total_pages = CeilDiv(Len(P), page_size)
                    /\ r.has_previous
                    /\ ~r.has_next

\* C17 amended: the same for a list that has at least one page
C17_BeyondLastPageOfSome ==
    \A t \in Threads : Paginating(t) =>
        LET P == loc[t].refs
        IN \A page \in 1..MaxPage : \A page_size \in 1..MaxPageSize :
              LET r == paginate(P, page, page_size)
              IN (page > CeilDiv(Len(P), page_size) /\ CeilDiv(Len(P), page_size) >= 1) =>
                    /\ r.items = <<>>
                    /\ r.total = Len(P)
                    /\ r.total_pages = CeilDiv(Len(P), page_size)
                    /\ r.has_previous
                    /\ ~r.has_next

\* a page beyond the last page of a list that is not empty has been returned
C17_Witness ==
    /\ lastOp.op = "paginate"
    /\ lastOp.ret.page_size >= 1
    /\ lastOp.ret.total_pages >= 1
    /\ lastOp.ret.page > lastOp.ret.total_pages
    /\ lastOp.ret.items = <<>>
    /\ lastOp.ret.has_previous

\* ----------------------------------------------------------- recommendation
\* thread t returns from get_similar_products in this step
SimilarReturns(t) ==
    /\ pc[t] = "get_similar_products_candidates"
    /\ pc'[t] = "idle"

\* the products similar to reference product X of id x: of its category,
\* not X, and of another seller unless same_seller
SimilarCandidates(X, x, same_seller) ==
    {q \in DOMAIN products :
        /\ q # x
        /\ products[q].category_id = X.category_id
        /\ same_seller \/ products[q].seller_id # X.seller_id}

\* C18: get_similar_products returns at most limit products, each of the
\* category of the reference product X, none X itself, and none of X's
\* seller unless include_same_seller, in which case the products of X's
\* seller are returned as the others are, X still left out
C18_SimilarExcludes ==
    [][\A t \in Threads : SimilarReturns(t) =>
          LET X == loc[t].old
              x == loc[t].pid
              limit == loc[t].data.limit
              same_seller == loc[t].data.include_same_seller
              ret == lastOp'.ret
          IN /\ Len(ret) <= limit
             /\ \A i \in 1..Len(ret) :
                   /\ ret[i] \in DOMAIN products
                   /\ products[ret[i]].category_id = X.category_id
                   /\ ret[i] # x
                   /\ ~same_seller => products[ret[i]].seller_id # X.seller_id
             /\ (same_seller /\ Len(ret) < limit) =>
                   \A q \in DOMAIN products :
                       (q # x /\ products[q].category_id = X.category_id)
                          => q \in Range(ret)
      ]_vars

\* a call has returned a product and left out one of the reference
\* product's own seller and category although limit was not reached
C18_Witness ==
    /\ lastOp.op = "get_similar_products"
    /\ lastOp.arg \in DOMAIN products
    /\ Len(lastOp.ret) = 1
    /\ Len(lastOp.ret) < MaxLimit
    /\ \E q \in DOMAIN products \ Range(lastOp.ret) :
          /\ q # lastOp.arg
          /\ products[q].category_id = products[lastOp.arg].category_id
          /\ products[q].seller_id = products[lastOp.arg].seller_id

\* the score of product q for a reference final price ref, times 100 * ref
\* when ref > 0: average_rating + 2 * max(0, 1 - |final_price - ref| / ref),
\* and the average rating alone when ref = 0
ScoreTimes(q, ref) ==
    IF ref > 0
    THEN products[q].average_rating * ref
           + 2 * Scale * Max(0, ref - Abs(products[q].final_price - ref))
    ELSE products[q].average_rating

\* a is ranked before b: by a higher score, or at equal score by its place
\* in the scan of the category, which is in order of id
RankedBefore(a, b, ref) ==
    \/ ScoreTimes(a, ref) > ScoreTimes(b, ref)
    \/ ScoreTimes(a, ref) = ScoreTimes(b, ref) /\ a < b

InScope(category_id) ==
    {q \in DOMAIN products :
        Truthy(category_id) => products[q].category_id = category_id[1]}

\* get_top_rated has returned at most limit products, each with at least
\* min_reviews reviews, in non-increasing order of average rating
TopRatedOrdered ==
    LET ret == lastOp.ret
    IN /\ Len(ret) <= lastOp.arg.limit
       /\ \A i \in 1..Len(ret) :
             products[ret[i]].review_count >= lastOp.arg.min_reviews
       /\ \A i, j \in 1..Len(ret) :
             i < j => products[ret[i]].average_rating >= products[ret[j]].average_rating

\* no product of the set S that has min_reviews reviews and is left out is
\* rated strictly higher than a returned one
NoneBetterLeftOut(S) ==
    \A q \in S \ Range(lastOp.ret) :
        products[q].review_count >= lastOp.arg.min_reviews =>
            \A i \in 1..Len(lastOp.ret) :
                products[q].average_rating <= products[lastOp.ret[i]].average_rating

\* C20 as stated: the result is ordered and cut as said, and no product of
\* the store that meets the review floor and is left out is rated strictly
\* higher than a returned one
C20_TopRatedOfStore ==
    lastOp.op = "get_top_rated" =>
        TopRatedOrdered /\ NoneBetterLeftOut(DOMAIN products)

\* C20 amended: the same for the products of the category asked for
C20_TopRatedOfScope ==
    lastOp.op = "get_top_rated" =>
        /\ TopRatedOrdered
        /\ Range(lastOp.ret) \subseteq InScope(lastOp.arg.category_id)
        /\ NoneBetterLeftOut(InScope(lastOp.arg.category_id))

\* a call for one category has returned a product and left out a product
\* of that category that meets the review floor, and one of another category
C20_Witness ==
    /\ lastOp.op = "get_top_rated"
    /\ Truthy(lastOp.arg.category_id)
    /\ Len(lastOp.ret) = lastOp.arg.limit
    /\ \E q \in InScope(lastOp.arg.category_id) \ Range(lastOp.ret) :
          products[q].review_count >= lastOp.arg.min_reviews
    /\ \E q \in DOMAIN products \ InScope(lastOp.arg.category_id) :
          products[q].review_count >= lastOp.arg.min_reviews

\* ------------------------------------------------------------- best deals
Discount(q) == products[q].discount_percentage

\* the products get_best_deals may return: in scope, discounted by at least
\* min_discount
EligibleDeals(category_id, min_discount) ==
    {q \in InScope(category_id) : Discount(q) >= min_discount}

\* C21: get_best_deals returns only products with discount_percentage >=
\* min_discount, in non-increasing order of discount_percentage, at most
\* limit of them (as many as there are eligible ones, up to limit), and no
\* eligible product left out has a strictly higher discount than a returned
\* one
C21_BestDeals ==
    lastOp.op = "get_best_deals" =>
        LET ret == lastOp.ret
            eligible == EligibleDeals(lastOp.arg.category_id, lastOp.arg.min_discount)
        IN /\ Len(ret) = Min(lastOp.arg.limit, Cardinality(eligible))
           /\ Range(ret) \subseteq DOMAIN products
           /\ \A i \in 1..Len(ret) : Discount(ret[i]) >= lastOp.arg.min_discount
           /\ \A i, j \in 1..Len(ret) : i < j => Discount(ret[i]) >= Discount(ret[j])
           /\ \A q \in eligible \ Range(ret) :
                 \A i \in 1..Len(ret) : Discount(q) <= Discount(ret[i])

\* a call with floor 20 and limit 1 has returned the product discounted by
\* 100, leaving out one discounted by 50 and one not discounted at all
C21_Witness ==
    /\ lastOp.op = "get_best_deals"
    /\ lastOp.arg.min_discount = 20
    /\ Len(lastOp.ret) = 1
    /\ Discount(lastOp.ret[1]) = 100
    /\ \E q \in DOMAIN products : Discount(q) = 50
    /\ \E q \in DOMAIN products : Discount(q) = 0

\* ------------------------------------------------------------ price range
\* the step answers a price-range request whose min_price exceeds max_price
RejectsInvertedRange ==
    /\ lastOp'.op = "get_by_price_range"
    /\ lastOp'.arg.min_price > lastOp'.arg.max_price

\* C22: a price-range request with min_price > max_price is answered with
\* the invalid-range error (400) by the handler in one step that neither
\* waits for the store lock nor enters the service nor touches the store,
\* and the answer carries no product list, not even an empty one
C22_InvertedRangeRejected ==
    [][RejectsInvertedRange =>
          /\ lastOp'.ret = Status400
          /\ "body" \notin DOMAIN lastOp'.ret
          /\ UNCHANGED <<store, lock, pc, loc, now>>
      ]_<<lastOp.op, vars>>

\* the range 130..100 has been rejected on a store that holds products
\* priced 100 and 130
C22_Witness ==
    /\ lastOp.op = "get_by_price_range"
    /\ lastOp.arg.min_price = 13000
    /\ lastOp.arg.max_price = 10000
    /\ lastOp.ret.status = 400
    /\ \E q \in DOMAIN products : products[q].final_price = 10000
    /\ \E q \in DOMAIN products : products[q].final_price = 13000

\* --------------------------------------------------------- category scope
\* the composed queries, by the name their answer is recorded under
ComposedQueries ==
    {"get_top_rated", "get_best_deals", "get_popular_products",
     "get_new_arrivals", "get_by_price_range"}

\* the products the last composed query returned (none when it was rejected)
Returned ==
    IF lastOp.op = "get_by_price_range"
    THEN IF lastOp.ret.status = 200 THEN lastOp.ret.body ELSE <<>>
    ELSE lastOp.ret

\* C23: whenever a category_id value is supplied to a composed query
\* (top-rated, best deals, popular, new arrivals, price range), every
\* returned product has exactly that category_id; products of all
\* categories are considered only when category_id is absent
C23_CategoryScope ==
    (lastOp.op \in ComposedQueries /\ lastOp.arg.category_id # <<>>) =>
        \A i \in 1..Len(Returned) :
            products[Returned[i]].category_id = lastOp.arg.category_id[1]

\* -------------------------------------------- price range as the pipeline
\* the criteria object of a price-range query: both bounds, and the category
\* when one is supplied
PriceRangeCriteria(min_price, max_price, category_id) ==
    LET bounds == [min_price |-> min_price, max_price |-> max_price]
    IN IF category_id = <<>> THEN bounds
       ELSE Merged(bounds, [category_id |-> category_id[1]])

\* C27: for min_price <= max_price, get_price_range_products returns exactly
\* the first limit elements of apply_sorting(apply_filters(all products,
\* category_id, min_price, max_price), rating, descending): the same
\* members, final_price within the inclusive bounds, in the same order
C27_PriceRangeIsPipeline ==
    (lastOp.op = "get_by_price_range"
        /\ lastOp.arg.min_price <= lastOp.arg.max_price) =>
        LET a == lastOp.arg
            filtered == apply_filters(products, AllProducts(products),
                            PriceRangeCriteria(a.min_price, a.max_price, a.category_id))
            sorted == apply_sorting(products, filtered, "rating", "desc")
        IN /\ lastOp.ret.status = 200
           /\ lastOp.ret.body = SubSeq(sorted, 1, Min(a.limit, Len(sorted)))
           /\ \A i \in 1..Len(lastOp.ret.body) :
                 /\ a.min_price <= products[lastOp.ret.body[i]].final_price
                 /\ products[lastOp.ret.body[i]].final_price <= a.max_price

\* the range 100..130 has returned a product priced 130 ahead of a lower
\* rated one priced 100, both at a bound, and left out one priced 500
C27_Witness ==
    /\ lastOp.op = "get_by_price_range"
    /\ lastOp.arg.min_price = 10000
    /\ lastOp.arg.max_price = 13000
    /\ lastOp.ret.status = 200
    /\ Len(lastOp.ret.body) = 2
    /\ products[lastOp.ret.body[1]].final_price = 13000
    /\ products[lastOp.ret.body[2]].final_price = 10000
    /\ products[lastOp.ret.body[1]].average_rating
          > products[lastOp.ret.body[2]].average_rating
    /\ \E q \in DOMAIN products : products[q].final_price = 50000

\* --------------------------------------------------------- limit and prefix
\* the limits a query is compared at: those the callers pass and one more
Limits == 1..(MaxLimit + 1)

\* the list composed query op returns for arguments a with its limit set to k
ComposedResult(op, a, k) ==
    CASE op = "get_top_rated"  -> TopRated(products, a.category_id, a.min_reviews, k)
      [] op = "get_best_deals" -> BestDeals(products, a.category_id, a.min_discount, k)
      [] op = "get_popular_products" -> Popular(products, a.category_id, k)
      [] op = "get_new_arrivals"     -> NewArrivals(products, a.category_id, k)
      [] op = "get_by_price_range"   ->
            PriceRange(products, a.min_price, a.max_price, a.category_id, k)

\* short is the prefix of long that limit k cuts out of n eligible products
IsPrefixAt(short, long, k, n) ==
    /\ Len(short) = Min(k, n)
    /\ Len(short) <= Len(long)
    /\ \A i \in 1..Len(short) : short[i] = long[i]

\* the step returns a product list from a composed query
ComposedReturns ==
    /\ lastOp'.op \in ComposedQueries
    /\ lastOp'.op = "get_by_price_range" => lastOp'.ret.status = 200

\* C28: for each of the six recommendation queries and a fixed store, the
\* result for limit k is the prefix of length min(k, n) of the result for
\* every larger limit, n being the number of eligible products (the length
\* of the result when the limit is the size of the store)
C28_LimitPrefix ==
    [][/\ ComposedReturns =>
             LET a == lastOp'.arg
                 n == Len(ComposedResult(lastOp'.op, a, Cardinality(DOMAIN products)))
             IN \A k \in Limits :
                   k > a.limit =>
                      IsPrefixAt(Returned', ComposedResult(lastOp'.op, a, k), a.limit, n)
       /\ \A t \in Threads : SimilarReturns(t) =>
             LET d == loc[t].data
                 similar(k) == SimilarProducts(products, loc[t].old, loc[t].pid, k,
                                               d.include_same_seller)
                 n == Len(similar(Cardinality(DOMAIN products)))
             IN \A k \in Limits :
                   k > d.limit => IsPrefixAt(lastOp'.ret, similar(k), d.limit, n)
      ]_<<lastOp.op, vars>>

\* with limit 1 the most reviewed product has been returned; limit 2 returns
\* it followed by a second one
C28_Witness ==
    /\ lastOp.op = "get_popular_products"
    /\ lastOp.arg.limit = 1
    /\ Len(lastOp.ret) = 1
    /\ Len(Popular(products, lastOp.arg.category_id, 2)) = 2
    /\ Popular(products, lastOp.arg.category_id, 2)[1] = lastOp.ret[1]
    /\ products[Popular(products, lastOp.arg.category_id, 2)[2]].review_count
          < products[lastOp.ret[1]].review_count

\* ---------------------------------------------------------------- read-only
\* the names the answers of the queries are recorded under
QueryOps ==
    ComposedQueries \cup {"get_similar_products", "apply_filters", "apply_sorting",
                          "paginate"}

\* the positions a thread is at inside a query that takes several steps
QueryPositions ==
    {"list_products_filters", "list_products_sorting", "list_products_paginate",
     "get_similar_products_candidates"}

\* the step is one of apply_filters, apply_sorting, paginate, a fetch of the
\* pipeline or a step of one of the six recommendation queries
QueryStep ==
    \/ lastOp'.op \in QueryOps
    \/ \E t \in Threads : pc[t] # pc'[t] /\ pc'[t] \in QueryPositions

\* C26: apply_filters, apply_sorting, paginate and the six recommendation
\* queries are read-only: a step of any of them, with any arguments, leaves
\* every field of every product and review, the membership of every map and
\* the id counters unchanged, and the list each pipeline stage was given
\* still holds the same products, in the same order, in the store
C26_QueriesReadOnly ==
    [][QueryStep =>
          /\ UNCHANGED store
          /\ lastOp'.op \in {"apply_filters", "apply_sorting", "paginate"} =>
                /\ AllProducts(products') = AllProducts(products)
                /\ \A i \in 1..Len(lastOp'.arg.items) :
                      products'[lastOp'.arg.items[i]] = products[lastOp'.arg.items[i]]
      ]_<<lastOp.op, vars>>

\* get_similar_products has scored and returned two products of a store
\* that holds three
C26_Witness ==
    /\ lastOp.op = "get_similar_products"
    /\ Len(lastOp.ret) = 2
    /\ Cardinality(DOMAIN products) = 3
    /\ \A p \in DOMAIN products : "score" \notin DOMAIN products[p]

\* --------------------------------------------------------------- termination
\* the positions inside a critical section: the lock is held there
InCritical(t) == pc[t] \in {"update_product_final", "increment_helpful_add"}

\* the holder of the lock is a thread inside a critical section, which can
\* always take its next step; no thread waits for a lock it holds itself
LockHeldInsideCall ==
    /\ lock # 0 => (lock \in Threads /\ InCritical(lock))
    /\ \A t \in Threads : InCritical(t) => lock = t
    /\ \A t \in Threads : pc[t] = "create_review_rating" => lock # t

\* C24: with a fair lock every store operation a thread has begun returns:
\* the lock is held only by a thread inside a critical section, never by one
\* that waits for it (create_review has released it before
\* update_product_rating takes it again), and every thread inside a call is
\* back out of it later
C24_OperationsReturn ==
    /\ []LockHeldInsideCall
    /\ \A t \in Threads : (pc[t] # "idle") ~> (pc[t] = "idle")

\* a thread has inserted a review and waits to update the rating while the
\* other thread holds the lock inside update_product
C24_Witness ==
    \E t, u \in Threads :
        /\ pc[t] = "create_review_rating"
        /\ pc[u] = "update_product_final"
        /\ lock = u

\* --------------------------------------------------------- mutual exclusion
\* at most one thread is inside a critical section, and it holds the lock
MutualExclusion ==
    /\ Cardinality({t \in Threads : InCritical(t)}) <= 1
    /\ \A t \in Threads : InCritical(t) => lock = t
    /\ \A r \in DOMAIN reviews : reviews[r].helpful_count \in Nat

\* thread t completes a successful increment_helpful of review r in this step
Increments(t, r) ==
    /\ pc[t] = "increment_helpful_add"
    /\ pc'[t] # "increment_helpful_add"
    /\ loc[t].rid = r

\* C29: at any instant at most one thread is inside a store critical
\* section; a review starts with helpful_count 0, each successful
\* increment_helpful adds exactly 1 to the count as it is at that moment, and
\* no other step changes it, so after k successful calls by any threads the
\* count is k
C29_NoLostIncrement ==
    /\ []MutualExclusion
    /\ [][/\ \A r \in DOMAIN reviews' \ DOMAIN reviews : reviews'[r].helpful_count = 0
          /\ \A r \in DOMAIN reviews :
                /\ (\E t \in Threads : Increments(t, r))
                      => /\ r \in DOMAIN reviews'
                         /\ reviews'[r].helpful_count = reviews[r].helpful_count + 1
                /\ (r \in DOMAIN reviews' /\ ~\E t \in Threads : Increments(t, r))
                      => reviews'[r].helpful_count = reviews[r].helpful_count
         ]_vars

\* a second successful increment_helpful has brought a review to 2 while
\* the other thread waits to recompute a rating
C29_Witness ==
    /\ lastOp.op = "increment_helpful"
    /\ lastOp.ret = TRUE
    /\ reviews[lastOp.arg].helpful_count = 2
    /\ \E t \in Threads : pc[t] = "create_review_rating"

\* -------------------------------------------------------------- mark helpful
\* C30: the mark-helpful handler ends with not-found, or with a
\* helpful_count >= 1 that includes its own increment, under every
\* interleaving with a delete_product of the review's product; it never
\* fails on a review that disappeared between its two store calls
C30_MarkHelpfulOutcomes ==
    lastOp.op = "mark_review_helpful" =>
        \/ lastOp.ret = Status404
        \/ /\ lastOp.ret.status = 200
           /\ lastOp.ret.body.helpful_count >= 1

\* --------------------------------------------------------- stored records
\* every record of map old is in map new, with every field as it was
Kept(old, new) == \A k \in DOMAIN old : k \in DOMAIN new /\ new[k] = old[k]

\* the step is a delete_product whose cascade removes review r
Cascaded(r) ==
    /\ lastOp'.op = "delete_product"
    /\ lastOp'.ret = TRUE
    /\ reviews[r].product_id = lastOp'.arg

\* C25 as stated: no step of a store operation modifies or removes a stored
\* review, user, seller or category, except that delete_product removes the
\* reviews of the product it deletes
C25_RecordsImmutable ==
    [][/\ Kept(users, users')
       /\ Kept(sellers, sellers')
       /\ Kept(categories, categories')
       /\ \A r \in DOMAIN reviews :
             IF Cascaded(r) THEN r \notin DOMAIN reviews'
             ELSE r \in DOMAIN reviews' /\ reviews'[r] = reviews[r]
      ]_vars

\* C25 amended: the same, with two more exceptions: increment_helpful adds 1
\* to the helpful_count of its review and leaves the other fields, and
\* clear_all removes every record
C25_RecordsImmutableBut ==
    [][IF lastOp'.op = "clear_all"
       THEN /\ users' = EmptyDict /\ sellers' = EmptyDict
            /\ categories' = EmptyDict /\ reviews' = EmptyDict
       ELSE /\ Kept(users, users')
            /\ Kept(sellers, sellers')
            /\ Kept(categories, categories')
            /\ \A r \in DOMAIN reviews :
                  IF Cascaded(r) THEN r \notin DOMAIN reviews'
                  ELSE /\ r \in DOMAIN reviews'
                       /\ reviews'[r] =
                             IF \E t \in Threads : Increments(t, r)
                             THEN Merged(reviews[r],
                                         [helpful_count |-> reviews[r].helpful_count + 1])
                             ELSE reviews[r]
      ]_vars

\* a product has been deleted with its review while a review of the other
\* product, marked helpful once, a user, a seller and a category stay stored
C25_Witness ==
    /\ lastOp.op = "delete_product"
    /\ lastOp.ret = TRUE
    /\ \E r \in DOMAIN reviews :
          /\ reviews[r].helpful_count = 1
          /\ reviews[r].product_id # lastOp.arg
    /\ \E r \in 1..review_counter :
          r \notin DOMAIN reviews
    /\ users # EmptyDict /\ sellers # EmptyDict /\ categories # EmptyDict

====
